---- MODULE Spec2Model ----
(***************************************************************************)
(* Model of the frame-sampling / smoothing pipeline of terra-civitas:      *)
(*   ml/smoothing.py  EMA, MajorityVote                                    *)
(*   ml/video_io.py   iter_frames (a Python generator)                     *)
(* Probabilities are exact rationals <<numerator, denominator>> in lowest  *)
(* terms; NumPy's element-wise arithmetic and broadcasting of 1-D arrays   *)
(* are modelled on sequences of rationals.                                 *)
(***************************************************************************)
EXTENDS Integers, Sequences, FiniteSets, TLC

VARIABLES
    \* ---- ml/smoothing.py: EMA (one entry per instance)
    alpha,          \* self.alpha
    ema,            \* self.ema
    initialized,    \* self.initialized
    ema_ret,        \* outcome of the last update call of each instance
    ema_prev,       \* self.ema as it was when the last update call started
    ema_was_init,   \* self.initialized as it was when the last call started
    ema_obs,        \* argument of the last update call
    ema_calls,      \* number of update calls made so far
    \* ---- ml/smoothing.py: MajorityVote (one entry per instance)
    window_size,    \* self.window_size
    queue,          \* self.queue, oldest entry first
    mv_ret,         \* outcome of the last update call of each instance
    mv_fed,         \* every label passed to update so far, in call order
    \* ---- ml/video_io.py: iter_frames
    gen,            \* state of the generator object
    source,         \* what the path given to iter_frames refers to
    n_frames,       \* number of frames the source decodes to
    native_fps,     \* what cap.get(cv2.CAP_PROP_FPS) reports
    fps_out,        \* argument fps_out
    cap,            \* state of the cv2.VideoCapture object
    frame_interval, \* local frame_interval
    count,          \* local count
    frame_yielded,  \* local frame_yielded
    yielded,        \* zero-based decode indices handed to the consumer, in order
    gen_err,        \* exception that left the generator, if any
    next_calls      \* number of times the consumer asked for a frame

emaVars == <<alpha, ema, initialized, ema_ret, ema_prev, ema_was_init, ema_obs, ema_calls>>
mvVars == <<window_size, queue, mv_ret, mv_fed>>
frVars == <<gen, source, n_frames, native_fps, fps_out, cap, frame_interval, count,
            frame_yielded, yielded, gen_err, next_calls>>

VARIABLES
    \* ---- ml/model_loader.py: ModelLoader
    instance,       \* ModelLoader._instance: None, or the id of the object
    lock,           \* ModelLoader._lock: "free", or the thread holding it
    model,          \* self.model: Unset, None, or the id of a SimpleViTModel
    processor,      \* self.processor: Unset, None, or a SimpleImageProcessor
    device,         \* self.device: Unset, None, or a torch.device
    pc,             \* the statement each thread is at
    t_inst,         \* what ModelLoader() returned to each thread
    t_dev,          \* the device each thread's load() asks for
    t_ret,          \* outcome of each thread's last load()
    t_fast,         \* whether each thread's last load() found a model present
    calls,          \* number of load() calls each thread has finished
    n_created,      \* number of ModelLoader objects created
    n_init,         \* number of times line 56 set self.model = None
    n_reset,        \* number of times line 56 ran on a loaded model
    n_loads,        \* number of torch.load calls that returned weights
    n_models        \* number of SimpleViTModel objects created

mlVars == <<instance, lock, model, processor, device, pc, t_inst, t_dev, t_ret, t_fast,
            calls, n_created, n_init, n_reset, n_loads, n_models>>


VARIABLES
    \* ---- ml/inference.py: predict_frame, predict_batch
    n_out,          \* number of scores the model gives per frame (len(probs))
    id2label,       \* model.config.id2label: None, or a dict from index to name
    pr_fn,          \* the function that was called
    pr_frames,      \* its frames (predict_frame: the one frame)
    pr_top_k,       \* its top_k
    pr_env,         \* what the processor and the model did in the call
    pr_out,         \* its outcome: the value returned or the exception raised
    processor_calls, \* number of processor(...) calls made in the call
    model_calls     \* number of model(...) calls made in the call

prVars == <<n_out, id2label, pr_fn, pr_frames, pr_top_k, pr_env, pr_out,
            processor_calls, model_calls>>

VARIABLES
    \* ---- ml/test.py: main
    pl_source,      \* what video_path refers to
    pl_stream,      \* what each cap.read() of the source gives, in order
    pl_native,      \* what cap.get(cv2.CAP_PROP_FPS) reports for it
    pl_env,         \* what the processor and the model do in predict_batch
    pl_pc,          \* the statement main is at
    pl_frames,      \* local frames: zero-based stream positions of the frames held
    pl_reported,    \* stream positions of the frames whose result was printed
    pl_ret,         \* what main returned
    pl_err          \* the error main printed, if any

plVars == <<pl_source, pl_stream, pl_native, pl_env, pl_pc, pl_frames, pl_reported,
            pl_ret, pl_err>>

VARIABLES
    \* ---- AlertDecider
    ad_consecutive, \* CONSECUTIVE of the decider
    ad_state,       \* "Idle", "Accumulating" or "Fired"
    ad_streak,      \* the streak counter
    ad_tracked,     \* the tracked label, or NoTracked
    ad_emitted,     \* number of Alerts the last update emitted (0 or 1)
    ad_alerts,      \* number of Alerts emitted so far
    ad_n,           \* number of observations fed so far
    ad_prev,        \* ad_state as it was when the last update started
    ad_run,         \* the observations fed since the last streak break
    ad_run_alerts,  \* number of Alerts emitted since the last streak break
    ad_breaks       \* number of streak breaks so far

adVars == <<ad_consecutive, ad_state, ad_streak, ad_tracked, ad_emitted, ad_alerts,
            ad_n, ad_prev, ad_run, ad_run_alerts, ad_breaks>>

VARIABLES
    \* ---- ml/smoothing.py: EMA and the array objects it shares with its caller
    al_alpha,       \* self.alpha
    al_initialized, \* self.initialized
    al_ref,         \* the array object self.ema refers to: "own" or "arg"
    own_arr,        \* content of the array object that only the EMA holds
    arg_arr,        \* content of the float ndarray object that the caller holds
    al_ret,         \* the list the last update returned, as the caller holds it
    al_at_return,   \* content of self.ema when the last update returned
    al_calls,       \* number of update calls made so far
    al_writes       \* number of in-place writes the caller made so far

alVars == <<al_alpha, al_initialized, al_ref, own_arr, arg_arr, al_ret, al_at_return,
            al_calls, al_writes>>

VARIABLES
    \* ---- ml/labels.py: lookups in LABEL2ID and ID2LABEL
    lb_log          \* the lookups made so far: what was asked and what came back

lbVars == <<lb_log>>

VARIABLES
    \* ---- auth/db.py: the users table and the calls made on one session
    users,          \* the rows of the table
    db_before,      \* the rows as they were when the last call started
    db_call,        \* the last call: function and arguments
    db_out,         \* its outcome
    db_calls        \* number of calls made so far

dbVars == <<users, db_before, db_call, db_out, db_calls>>

VARIABLES
    \* ---- ml/smoothing.py: EMA in binary floating point
    fp_alpha,       \* self.alpha
    fp_ema,         \* self.ema
    fp_initialized, \* self.initialized
    fp_ret,         \* the list the last update returned
    fp_lo,          \* per label, the smallest value observed so far
    fp_hi,          \* per label, the largest value observed so far
    fp_calls        \* number of update calls made so far

fpVars == <<fp_alpha, fp_ema, fp_initialized, fp_ret, fp_lo, fp_hi, fp_calls>>

vars == <<emaVars, mvVars, frVars, mlVars, prVars, plVars, adVars, alVars, lbVars, dbVars,
          fpVars>>

-----------------------------------------------------------------------------
(* Bounds of the model *)

\* largest num_classes given to EMA(), and longest observation vector
MaxClasses == 2
\* number of EMA.update calls explored
MaxUpdates == 2
\* labels passed to MajorityVote.update are 0..MaxLabel
MaxLabel == 2
\* largest window_size given to MajorityVote()
MaxWindow == 3
\* number of MajorityVote.update calls explored
MaxFed == 4
\* largest number of frames a video source decodes to
MaxFrames == 4
\* number of ModelLoader() + load() rounds each thread makes
MaxLoaderCalls == 2
\* largest number of scores the model gives per frame
MaxOutputs == 4
\* largest top_k passed to predict_frame and predict_batch
MaxTopK == 5
\* longest list of frames passed to predict_batch
MaxBatch == 2
\* largest number of cap.read() results a source of main has
MaxStream == 3
\* largest CONSECUTIVE a decider is configured with
MaxConsecutive == 3
\* number of observations fed to a decider
MaxObs == 7
\* number of in-place writes a caller makes to an array or list it holds
MaxWrites == 2
\* number of label lookups made one after the other
MaxLookups == 2
\* number of calls made on the users table
MaxDbCalls == 3
\* significand bits of the binary floating-point format (float64 has 53)
FloatBits == 4

-----------------------------------------------------------------------------
(* Exact rational arithmetic *)

Abs(x) == IF x < 0 THEN -x ELSE x

RECURSIVE GCD(_, _)
GCD(a, b) == IF b = 0 THEN a ELSE GCD(b, a % b)

\* the rational n/d (d # 0) in lowest terms with a positive denominator
Rat(n, d) ==
    LET g == GCD(Abs(n), Abs(d))
        s == IF d < 0 THEN -1 ELSE 1
    IN  <<(s * n) \div g, (s * d) \div g>>

RAdd(x, y) == Rat(x[1] * y[2] + y[1] * x[2], x[2] * y[2])
RSub(x, y) == Rat(x[1] * y[2] - y[1] * x[2], x[2] * y[2])
RMul(x, y) == Rat(x[1] * y[1], x[2] * y[2])
RZero == <<0, 1>>
ROne == <<1, 1>>

-----------------------------------------------------------------------------
(* ml/smoothing.py: EMA *)

\* the two smoothers that are compared with each other
Instances == {1, 2}

\* values an entry of an observation takes
ProbValues == {RZero, Rat(1, 2), ROne}
\* values of alpha; the constructor accepts any float, in (0, 1] or not
Alphas == {RZero, Rat(1, 4), ROne, Rat(3, 2)}

\* every 1-D observation of length 0..MaxClasses
Observations == UNION {[1..n -> ProbValues] : n \in 0..MaxClasses}

\* np.zeros(num_classes)
Zeros(n) == [k \in 1..n |-> RZero]

\* NumPy broadcasting of two 1-D shapes (n,) and (m,)
Broadcastable(n, m) == n = m \/ n = 1 \/ m = 1
BroadcastLen(n, m) == IF n = 1 THEN m ELSE n
At(v, k) == IF Len(v) = 1 THEN v[1] ELSE v[k]

\* alpha * probs_arr + (1 - alpha) * ema, element-wise
Blend(a, probs_arr, e) ==
    [k \in 1..BroadcastLen(Len(probs_arr), Len(e)) |->
        RAdd(RMul(a, At(probs_arr, k)), RMul(RSub(ROne, a), At(e, k)))]

\* mutant: the initialized flag is ignored, so the first call blends with np.zeros
EMA_update_NoInitBranch(self, probs) ==
    IF Broadcastable(Len(probs), Len(self.ema))
    THEN LET e == Blend(self.alpha, probs, self.ema)
         IN  [ema |-> e, initialized |-> TRUE, ret |-> [kind |-> "value", val |-> e]]
    ELSE [ema |-> self.ema, initialized |-> self.initialized,
          ret |-> [kind |-> "raise", val |-> <<>>]]

\* mutant: the weights of the observation and of the previous value are swapped
EMA_update_SwappedWeights(self, probs) ==
    IF ~self.initialized
    THEN [ema |-> probs, initialized |-> TRUE, ret |-> [kind |-> "value", val |-> probs]]
    ELSE IF Broadcastable(Len(probs), Len(self.ema))
    THEN LET e == Blend(RSub(ROne, self.alpha), probs, self.ema)
         IN  [ema |-> e, initialized |-> TRUE, ret |-> [kind |-> "value", val |-> e]]
    ELSE [ema |-> self.ema, initialized |-> self.initialized,
          ret |-> [kind |-> "raise", val |-> <<>>]]

\* mutant: the first observation is copied into the preallocated array
\* (self.ema[:] = probs_arr), so its shape stays that of np.zeros(num_classes)
EMA_update_CopyIntoZeros(self, probs) ==
    IF ~self.initialized
    THEN IF Len(probs) = Len(self.ema) \/ Len(probs) = 1
         THEN LET e == [k \in 1..Len(self.ema) |-> At(probs, k)]
              IN  [ema |-> e, initialized |-> TRUE, ret |-> [kind |-> "value", val |-> e]]
         ELSE [ema |-> self.ema, initialized |-> self.initialized,
               ret |-> [kind |-> "raise", val |-> <<>>]]
    ELSE IF Broadcastable(Len(probs), Len(self.ema))
    THEN LET e == Blend(self.alpha, probs, self.ema)
         IN  [ema |-> e, initialized |-> TRUE, ret |-> [kind |-> "value", val |-> e]]
    ELSE [ema |-> self.ema, initialized |-> self.initialized,
          ret |-> [kind |-> "raise", val |-> <<>>]]

\* EMA.update: the fields after the call and what the call returns or raises.
\* A shape mismatch makes NumPy raise ValueError before self.ema is assigned.
EMA_update(self, probs) ==
    LET probs_arr == probs
    IN  IF ~self.initialized
        THEN [ema |-> probs_arr, initialized |-> TRUE,
              ret |-> [kind |-> "value", val |-> probs_arr]]
        ELSE IF Broadcastable(Len(probs_arr), Len(self.ema))
        THEN LET e == Blend(self.alpha, probs_arr, self.ema)
             IN  [ema |-> e, initialized |-> TRUE, ret |-> [kind |-> "value", val |-> e]]
        ELSE [ema |-> self.ema, initialized |-> self.initialized,
              ret |-> [kind |-> "raise", val |-> <<>>]]

NoRet == [kind |-> "none", val |-> <<>>]

\* EMA.__init__ of both instances: the same alpha, any num_classes each
EMA_init ==
    /\ \E a \in Alphas : alpha = [i \in Instances |-> a]
    /\ \E nc \in [Instances -> 1..MaxClasses] : ema = [i \in Instances |-> Zeros(nc[i])]
    /\ initialized = [i \in Instances |-> FALSE]
    /\ ema_ret = [i \in Instances |-> NoRet]
    /\ ema_prev = ema
    /\ ema_was_init = initialized
    /\ ema_obs = <<>>
    /\ ema_calls = 0

\* no EMA in use
EMA_idle ==
    /\ alpha = [i \in Instances |-> Rat(1, 2)]
    /\ ema = [i \in Instances |-> Zeros(1)]
    /\ initialized = [i \in Instances |-> FALSE]
    /\ ema_ret = [i \in Instances |-> NoRet]
    /\ ema_prev = ema
    /\ ema_was_init = initialized
    /\ ema_obs = <<>>
    /\ ema_calls = 0

EMA_self(i) == [alpha |-> alpha[i], ema |-> ema[i], initialized |-> initialized[i]]

\* the next observation of the input sequence is passed to update of every instance
EMAUpdate(probs) ==
    /\ ema_calls < MaxUpdates
    /\ UNCHANGED <<mvVars, frVars, mlVars, prVars, plVars, adVars, alVars, lbVars, dbVars, fpVars>>
    /\ ema' = [i \in Instances |-> EMA_update(EMA_self(i), probs).ema]
    /\ initialized' = [i \in Instances |-> EMA_update(EMA_self(i), probs).initialized]
    /\ ema_ret' = [i \in Instances |-> EMA_update(EMA_self(i), probs).ret]
    /\ ema_prev' = ema
    /\ ema_was_init' = initialized
    /\ ema_obs' = probs
    /\ ema_calls' = ema_calls + 1
    /\ UNCHANGED alpha

NextEMA == \E probs \in Observations : EMAUpdate(probs)

-----------------------------------------------------------------------------
(* ml/smoothing.py: MajorityVote *)

Labels == 0..MaxLabel

\* set(self.queue)
SetOf(q) == {q[k] : k \in 1..Len(q)}
\* self.queue.count(l)
CountOf(q, l) == Cardinality({k \in 1..Len(q) : q[k] = l})

\* mutant: a full deque refuses the new label instead of evicting the oldest
Deque_append_DropNewest(q, maxlen, x) ==
    IF maxlen = 0 THEN q
    ELSE IF Len(q) = maxlen THEN q
    ELSE Append(q, x)

\* deque(maxlen=window_size).append(x): a full deque drops its oldest entry,
\* a deque of maxlen 0 stays empty
Deque_append(q, maxlen, x) ==
    IF maxlen = 0 THEN q
    ELSE IF Len(q) = maxlen THEN Append(Tail(q), x)
    ELSE Append(q, x)

\* mutant: min instead of max
MV_candidates_Min(q) ==
    {l \in SetOf(q) : \A m \in SetOf(q) : CountOf(q, l) <= CountOf(q, m)}

\* max(set(self.queue), key=self.queue.count): max returns the first element of
\* largest key in the iteration order of the set, an order the language leaves
\* open, so every label of largest count is a possible result
MV_candidates(q) ==
    {l \in SetOf(q) : \A m \in SetOf(q) : CountOf(q, m) <= CountOf(q, l)}

\* MajorityVote.update: the possible outcomes on the queue after the append;
\* max over an empty set raises ValueError
MV_outcomes(q) ==
    IF q = <<>> THEN {[kind |-> "raise", val |-> 0]}
    ELSE {[kind |-> "value", val |-> l] : l \in MV_candidates(q)}

NoLabel == [kind |-> "none", val |-> 0]

\* MajorityVote.__init__ of both instances
MV_init ==
    /\ window_size \in [Instances -> 0..MaxWindow]
    /\ queue = [i \in Instances |-> <<>>]
    /\ mv_ret = [i \in Instances |-> NoLabel]
    /\ mv_fed = <<>>

\* no MajorityVote in use
MV_idle ==
    /\ window_size = [i \in Instances |-> 5]
    /\ queue = [i \in Instances |-> <<>>]
    /\ mv_ret = [i \in Instances |-> NoLabel]
    /\ mv_fed = <<>>

\* the next label of the input sequence is passed to update of every instance
MVUpdate(label) ==
    /\ Len(mv_fed) < MaxFed
    /\ UNCHANGED <<emaVars, frVars, mlVars, prVars, plVars, adVars, alVars, lbVars, dbVars, fpVars>>
    /\ queue' = [i \in Instances |-> Deque_append(queue[i], window_size[i], label)]
    /\ mv_ret' \in [Instances -> [kind : {"value", "raise"}, val : Labels]]
    /\ \A i \in Instances : mv_ret'[i] \in MV_outcomes(queue'[i])
    /\ mv_fed' = Append(mv_fed, label)
    /\ UNCHANGED window_size

NextMV == \E label \in Labels : MVUpdate(label)

-----------------------------------------------------------------------------
(* ml/video_io.py: iter_frames *)

\* what the path refers to: nothing, a file OpenCV cannot open, a video
Sources == {"missing", "corrupt", "video"}
\* values cap.get(cv2.CAP_PROP_FPS) reports; 0 when the rate is unknown
NativeRates == {-1, 0, 1, 2, 3, 5}
\* values of the argument fps_out
FpsOuts == {-1, 0, 1, 2, 4, 60}

FallbackFps == 30

\* round(r / f) of Python 3 for r > 0, f > 0: a tie goes to the even neighbour
Round(r, f) ==
    LET q == r \div f
        m == r % f
    IN  IF 2 * m < f THEN q
        ELSE IF 2 * m > f THEN q + 1
        ELSE IF q % 2 = 0 THEN q ELSE q + 1

\* orig_fps = cap.get(cv2.CAP_PROP_FPS) or 30; if orig_fps <= 0: orig_fps = 30
OrigFps(reported) == IF reported = 0 \/ reported <= 0 THEN FallbackFps ELSE reported

\* frame_interval = int(round(orig_fps / fps_out))
FrameInterval(reported, f) == Round(OrigFps(reported), f)

\* the while loop from the cap.read() of frame c to the point where the
\* generator next stops: a yield, the end of the stream, or the
\* ZeroDivisionError of count % frame_interval
RECURSIVE ReadLoop(_, _, _)
ReadLoop(c, interval, n) ==
    IF c >= n THEN [kind |-> "end", count |-> c]
    ELSE IF interval = 0 THEN [kind |-> "zerodiv", count |-> c]
    ELSE IF c % interval = 0 THEN [kind |-> "yield", count |-> c]
    ELSE ReadLoop(c + 1, interval, n)

\* the arguments of one use of iter_frames, before it is called
Frames_init ==
    /\ source \in Sources
    /\ n_frames \in 0..MaxFrames
    /\ source # "video" => n_frames = 0
    /\ native_fps \in NativeRates
    /\ fps_out \in FpsOuts
    /\ gen = "none"
    /\ cap = "none"
    /\ frame_interval = 0
    /\ count = 0
    /\ frame_yielded = 0
    /\ yielded = <<>>
    /\ gen_err = "none"
    /\ next_calls = 0

\* iter_frames not in use
Frames_idle ==
    /\ source = "missing"
    /\ n_frames = 0
    /\ native_fps = 0
    /\ fps_out = 2
    /\ gen = "none"
    /\ cap = "none"
    /\ frame_interval = 0
    /\ count = 0
    /\ frame_yielded = 0
    /\ yielded = <<>>
    /\ gen_err = "none"
    /\ next_calls = 0

\* iter_frames(source, fps_out): the function holds a yield, so the call builds
\* a generator object and runs none of the body
Call ==
    /\ gen = "none"
    /\ UNCHANGED <<emaVars, mvVars, mlVars, prVars, plVars, adVars, alVars, lbVars, dbVars, fpVars>>
    /\ gen' = "created"
    /\ UNCHANGED <<source, n_frames, native_fps, fps_out, cap, frame_interval, count,
                   frame_yielded, yielded, gen_err, next_calls>>

\* the loop runs on from frame c until the generator stops again
RunLoop(c, interval) ==
    LET r == ReadLoop(c, interval, n_frames)
    IN  /\ count' = r.count
        /\ IF r.kind = "yield"
           THEN /\ gen' = "suspended"
                /\ yielded' = Append(yielded, r.count)
                /\ cap' = "open"
                /\ gen_err' = "none"
           ELSE IF r.kind = "end"
           THEN /\ gen' = "finished"
                /\ yielded' = yielded
                /\ cap' = "released"
                /\ gen_err' = "none"
           ELSE /\ gen' = "raised"
                /\ yielded' = yielded
                /\ cap' = "released"
                /\ gen_err' = "ZeroDivisionError"

\* mutant: the decoder is opened before fps_out is checked
NextFirst_OpenBeforeFpsCheck ==
    /\ gen = "created"
    /\ UNCHANGED <<emaVars, mvVars, mlVars, prVars, plVars, adVars, alVars, lbVars, dbVars, fpVars>>
    /\ next_calls' = next_calls + 1
    /\ IF source = "missing"
       THEN /\ gen' = "raised"
            /\ gen_err' = "RuntimeError: Video file not found"
            /\ UNCHANGED <<cap, frame_interval, count, frame_yielded, yielded>>
       ELSE IF source = "corrupt"
       THEN /\ gen' = "raised"
            /\ gen_err' = "RuntimeError: Failed to open video source"
            /\ cap' = "failed"
            /\ UNCHANGED <<frame_interval, count, frame_yielded, yielded>>
       ELSE IF fps_out <= 0
       THEN /\ gen' = "raised"
            /\ gen_err' = "ValueError: fps_out must be greater than 0"
            /\ cap' = "open"
            /\ UNCHANGED <<frame_interval, count, frame_yielded, yielded>>
       ELSE /\ frame_interval' = FrameInterval(native_fps, fps_out)
            /\ frame_yielded' = 0
            /\ RunLoop(0, FrameInterval(native_fps, fps_out))
    /\ UNCHANGED <<source, n_frames, native_fps, fps_out>>

\* first next() on the generator: the body runs from its first line
NextFirst ==
    /\ gen = "created"
    /\ UNCHANGED <<emaVars, mvVars, mlVars, prVars, plVars, adVars, alVars, lbVars, dbVars, fpVars>>
    /\ next_calls' = next_calls + 1
    /\ IF source = "missing"
       THEN /\ gen' = "raised"
            /\ gen_err' = "RuntimeError: Video file not found"
            /\ UNCHANGED <<cap, frame_interval, count, frame_yielded, yielded>>
       ELSE IF fps_out <= 0
       THEN /\ gen' = "raised"
            /\ gen_err' = "ValueError: fps_out must be greater than 0"
            /\ UNCHANGED <<cap, frame_interval, count, frame_yielded, yielded>>
       ELSE IF source = "corrupt"
       THEN /\ gen' = "raised"
            /\ gen_err' = "RuntimeError: Failed to open video source"
            /\ cap' = "failed"
            /\ UNCHANGED <<frame_interval, count, frame_yielded, yielded>>
       ELSE /\ frame_interval' = FrameInterval(native_fps, fps_out)
            /\ frame_yielded' = 0
            /\ RunLoop(0, FrameInterval(native_fps, fps_out))
    /\ UNCHANGED <<source, n_frames, native_fps, fps_out>>

\* a later next(): the body resumes after the yield
NextResume ==
    /\ gen = "suspended"
    /\ UNCHANGED <<emaVars, mvVars, mlVars, prVars, plVars, adVars, alVars, lbVars, dbVars, fpVars>>
    /\ next_calls' = next_calls + 1
    /\ frame_yielded' = frame_yielded + 1
    /\ RunLoop(count + 1, frame_interval)
    /\ UNCHANGED <<source, n_frames, native_fps, fps_out, frame_interval>>

\* close() on a generator that never started: the body never runs
CloseUnstarted ==
    /\ gen = "created"
    /\ UNCHANGED <<emaVars, mvVars, mlVars, prVars, plVars, adVars, alVars, lbVars, dbVars, fpVars>>
    /\ gen' = "closed"
    /\ UNCHANGED <<source, n_frames, native_fps, fps_out, cap, frame_interval, count,
                   frame_yielded, yielded, gen_err, next_calls>>

\* close() on a suspended generator: GeneratorExit is raised at the yield and
\* the finally clause releases the decoder
CloseSuspended ==
    /\ gen = "suspended"
    /\ UNCHANGED <<emaVars, mvVars, mlVars, prVars, plVars, adVars, alVars, lbVars, dbVars, fpVars>>
    /\ gen' = "closed"
    /\ cap' = "released"
    /\ UNCHANGED <<source, n_frames, native_fps, fps_out, frame_interval, count,
                   frame_yielded, yielded, gen_err, next_calls>>

NextFrames ==
    \/ Call
    \/ NextFirst
    \/ NextResume
    \/ CloseUnstarted
    \/ CloseSuspended

-----------------------------------------------------------------------------
(* ml/model_loader.py: ModelLoader, used by several threads.  A thread      *)
(* switch can fall between any two statements; one statement is one step.   *)

Threads == {"t1", "t2"}

\* an attribute that was never assigned
Unset == -1
\* Python's None
None == 0
\* torch.device values a load() can ask for
Devices == {1, 2}

NoLoad == [kind |-> "none", val |-> 0]

\* the class before any ModelLoader() call
Loader_init ==
    /\ instance = None
    /\ lock = "free"
    /\ model = Unset
    /\ processor = Unset
    /\ device = Unset
    /\ pc = [t \in Threads |-> "idle"]
    /\ t_inst = [t \in Threads |-> None]
    /\ t_dev = [t \in Threads |-> 1]
    /\ t_ret = [t \in Threads |-> NoLoad]
    /\ t_fast = [t \in Threads |-> FALSE]
    /\ calls = [t \in Threads |-> 0]
    /\ n_created = 0
    /\ n_init = 0
    /\ n_reset = 0
    /\ n_loads = 0
    /\ n_models = 0

\* ModelLoader not in use
Loader_idle == Loader_init

Goto(t, label) == pc' = [pc EXCEPT ![t] = label]

\* a thread calls ModelLoader(), to call load(device=d) on the result
NewCall(t) ==
    /\ pc[t] = "idle"
    /\ calls[t] < MaxLoaderCalls
    /\ UNCHANGED <<emaVars, mvVars, frVars, prVars, plVars, adVars, alVars, lbVars, dbVars, fpVars>>
    /\ Goto(t, "new_check1")
    /\ \E d \in Devices : t_dev' = [t_dev EXCEPT ![t] = d]
    /\ UNCHANGED <<instance, lock, model, processor, device, t_inst, t_ret, t_fast,
                   calls, n_created, n_init, n_reset, n_loads, n_models>>

\* line 52: if not cls._instance
NewCheck1(t) ==
    /\ pc[t] = "new_check1"
    /\ UNCHANGED <<emaVars, mvVars, frVars, prVars, plVars, adVars, alVars, lbVars, dbVars, fpVars>>
    /\ Goto(t, IF instance = None THEN "new_acquire" ELSE "new_return")
    /\ UNCHANGED <<instance, lock, model, processor, device, t_inst, t_dev, t_ret,
                   t_fast, calls, n_created, n_init, n_reset, n_loads, n_models>>

\* line 53: with cls._lock (entry)
NewAcquire(t) ==
    /\ pc[t] = "new_acquire"
    /\ lock = "free"
    /\ UNCHANGED <<emaVars, mvVars, frVars, prVars, plVars, adVars, alVars, lbVars, dbVars, fpVars>>
    /\ lock' = t
    /\ Goto(t, "new_check2")
    /\ UNCHANGED <<instance, model, processor, device, t_inst, t_dev, t_ret, t_fast,
                   calls, n_created, n_init, n_reset, n_loads, n_models>>

\* mutant: no second check under the lock
NewCheck2_NoRecheck(t) ==
    /\ pc[t] = "new_check2"
    /\ UNCHANGED <<emaVars, mvVars, frVars, prVars, plVars, adVars, alVars, lbVars, dbVars, fpVars>>
    /\ Goto(t, "new_create")
    /\ UNCHANGED <<instance, lock, model, processor, device, t_inst, t_dev, t_ret,
                   t_fast, calls, n_created, n_init, n_reset, n_loads, n_models>>

\* line 54: if not cls._instance, under the lock
NewCheck2(t) ==
    /\ pc[t] = "new_check2"
    /\ UNCHANGED <<emaVars, mvVars, frVars, prVars, plVars, adVars, alVars, lbVars, dbVars, fpVars>>
    /\ Goto(t, IF instance = None THEN "new_create" ELSE "new_release")
    /\ UNCHANGED <<instance, lock, model, processor, device, t_inst, t_dev, t_ret,
                   t_fast, calls, n_created, n_init, n_reset, n_loads, n_models>>

\* line 55: cls._instance = super().__new__(cls)
NewCreate(t) ==
    /\ pc[t] = "new_create"
    /\ UNCHANGED <<emaVars, mvVars, frVars, prVars, plVars, adVars, alVars, lbVars, dbVars, fpVars>>
    /\ n_created' = n_created + 1
    /\ instance' = n_created + 1
    /\ Goto(t, "new_model")
    /\ UNCHANGED <<lock, model, processor, device, t_inst, t_dev, t_ret, t_fast, calls,
                   n_init, n_reset, n_loads, n_models>>

\* line 56: cls._instance.model = None
NewModel(t) ==
    /\ pc[t] = "new_model"
    /\ UNCHANGED <<emaVars, mvVars, frVars, prVars, plVars, adVars, alVars, lbVars, dbVars, fpVars>>
    /\ model' = None
    /\ n_init' = n_init + 1
    /\ n_reset' = IF model > None THEN n_reset + 1 ELSE n_reset
    /\ Goto(t, "new_processor")
    /\ UNCHANGED <<instance, lock, processor, device, t_inst, t_dev, t_ret, t_fast,
                   calls, n_created, n_loads, n_models>>

\* line 57: cls._instance.processor = None
NewProcessor(t) ==
    /\ pc[t] = "new_processor"
    /\ UNCHANGED <<emaVars, mvVars, frVars, prVars, plVars, adVars, alVars, lbVars, dbVars, fpVars>>
    /\ processor' = None
    /\ Goto(t, "new_device")
    /\ UNCHANGED <<instance, lock, model, device, t_inst, t_dev, t_ret, t_fast, calls,
                   n_created, n_init, n_reset, n_loads, n_models>>

\* line 58: cls._instance.device = None
NewDevice(t) ==
    /\ pc[t] = "new_device"
    /\ UNCHANGED <<emaVars, mvVars, frVars, prVars, plVars, adVars, alVars, lbVars, dbVars, fpVars>>
    /\ device' = None
    /\ Goto(t, "new_release")
    /\ UNCHANGED <<instance, lock, model, processor, t_inst, t_dev, t_ret, t_fast,
                   calls, n_created, n_init, n_reset, n_loads, n_models>>

\* line 53: with cls._lock (exit)
NewRelease(t) ==
    /\ pc[t] = "new_release"
    /\ UNCHANGED <<emaVars, mvVars, frVars, prVars, plVars, adVars, alVars, lbVars, dbVars, fpVars>>
    /\ lock' = "free"
    /\ Goto(t, "new_return")
    /\ UNCHANGED <<instance, model, processor, device, t_inst, t_dev, t_ret, t_fast,
                   calls, n_created, n_init, n_reset, n_loads, n_models>>

\* line 59: return cls._instance
NewReturn(t) ==
    /\ pc[t] = "new_return"
    /\ UNCHANGED <<emaVars, mvVars, frVars, prVars, plVars, adVars, alVars, lbVars, dbVars, fpVars>>
    /\ t_inst' = [t_inst EXCEPT ![t] = instance]
    /\ Goto(t, "load_check")
    /\ UNCHANGED <<instance, lock, model, processor, device, t_dev, t_ret, t_fast,
                   calls, n_created, n_init, n_reset, n_loads, n_models>>

\* load() is over for thread t, with outcome r
LoadEnds(t, r) ==
    /\ t_ret' = [t_ret EXCEPT ![t] = r]
    /\ calls' = [calls EXCEPT ![t] = calls[t] + 1]
    /\ Goto(t, "idle")

\* mutant: self.device is assigned before the check for a model
LoadCheck_DeviceFirst(t) ==
    /\ pc[t] = "load_check"
    /\ UNCHANGED <<emaVars, mvVars, frVars, prVars, plVars, adVars, alVars, lbVars, dbVars, fpVars>>
    /\ device' = t_dev[t]
    /\ IF model = Unset
       THEN /\ LoadEnds(t, [kind |-> "raise", val |-> 0])
            /\ t_fast' = [t_fast EXCEPT ![t] = FALSE]
       ELSE IF model # None
       THEN /\ LoadEnds(t, [kind |-> "model", val |-> model])
            /\ t_fast' = [t_fast EXCEPT ![t] = TRUE]
       ELSE /\ Goto(t, "load_torch")
            /\ t_fast' = [t_fast EXCEPT ![t] = FALSE]
            /\ UNCHANGED <<t_ret, calls>>
    /\ UNCHANGED <<instance, lock, model, processor, t_inst, t_dev, n_created, n_init,
                   n_reset, n_loads, n_models>>

\* lines 62-63: if self.model is not None: return self.model.  On an object
\* whose model attribute is not assigned yet the read raises AttributeError.
LoadCheck(t) ==
    /\ pc[t] = "load_check"
    /\ UNCHANGED <<emaVars, mvVars, frVars, prVars, plVars, adVars, alVars, lbVars, dbVars, fpVars>>
    /\ IF model = Unset
       THEN /\ LoadEnds(t, [kind |-> "raise", val |-> 0])
            /\ t_fast' = [t_fast EXCEPT ![t] = FALSE]
       ELSE IF model # None
       THEN /\ LoadEnds(t, [kind |-> "model", val |-> model])
            /\ t_fast' = [t_fast EXCEPT ![t] = TRUE]
       ELSE /\ Goto(t, "load_device")
            /\ t_fast' = [t_fast EXCEPT ![t] = FALSE]
            /\ UNCHANGED <<t_ret, calls>>
    /\ UNCHANGED <<instance, lock, model, processor, device, t_inst, t_dev, n_created,
                   n_init, n_reset, n_loads, n_models>>

\* line 65: self.device = torch.device(...)
LoadDevice(t) ==
    /\ pc[t] = "load_device"
    /\ UNCHANGED <<emaVars, mvVars, frVars, prVars, plVars, adVars, alVars, lbVars, dbVars, fpVars>>
    /\ device' = t_dev[t]
    /\ Goto(t, "load_torch")
    /\ UNCHANGED <<instance, lock, model, processor, t_inst, t_dev, t_ret, t_fast,
                   calls, n_created, n_init, n_reset, n_loads, n_models>>

\* line 69: state_dict = torch.load(model_path, ...) returns the weights
LoadTorch(t) ==
    /\ pc[t] = "load_torch"
    /\ UNCHANGED <<emaVars, mvVars, frVars, prVars, plVars, adVars, alVars, lbVars, dbVars, fpVars>>
    /\ n_loads' = n_loads + 1
    /\ Goto(t, "load_model")
    /\ UNCHANGED <<instance, lock, model, processor, device, t_inst, t_dev, t_ret,
                   t_fast, calls, n_created, n_init, n_reset, n_models>>

\* line 69 raises (no file, unreadable file); lines 89-92 raise RuntimeError
LoadTorchFails(t) ==
    /\ pc[t] = "load_torch"
    /\ UNCHANGED <<emaVars, mvVars, frVars, prVars, plVars, adVars, alVars, lbVars, dbVars, fpVars>>
    /\ LoadEnds(t, [kind |-> "raise", val |-> 0])
    /\ UNCHANGED <<instance, lock, model, processor, device, t_inst, t_dev, t_fast,
                   n_created, n_init, n_reset, n_loads, n_models>>

\* lines 72-81: self.model = SimpleViTModel(), then the state dict is loaded
\* into it (a failure of load_state_dict is caught by the bare except)
LoadModel(t) ==
    /\ pc[t] = "load_model"
    /\ UNCHANGED <<emaVars, mvVars, frVars, prVars, plVars, adVars, alVars, lbVars, dbVars, fpVars>>
    /\ n_models' = n_models + 1
    /\ model' = n_models + 1
    /\ Goto(t, "load_processor")
    /\ UNCHANGED <<instance, lock, processor, device, t_inst, t_dev, t_ret, t_fast,
                   calls, n_created, n_init, n_reset, n_loads>>

\* line 84: self.processor = SimpleImageProcessor()
LoadProcessor(t) ==
    /\ pc[t] = "load_processor"
    /\ UNCHANGED <<emaVars, mvVars, frVars, prVars, plVars, adVars, alVars, lbVars, dbVars, fpVars>>
    /\ processor' = 1
    /\ Goto(t, "load_to")
    /\ UNCHANGED <<instance, lock, model, device, t_inst, t_dev, t_ret, t_fast, calls,
                   n_created, n_init, n_reset, n_loads, n_models>>

\* lines 86-87: self.model = self.model.to(self.device); self.model.eval().
\* Module.to returns the module it is called on.
LoadTo(t) ==
    /\ pc[t] = "load_to"
    /\ UNCHANGED <<emaVars, mvVars, frVars, prVars, plVars, adVars, alVars, lbVars, dbVars, fpVars>>
    /\ Goto(t, "load_return")
    /\ UNCHANGED <<instance, lock, model, processor, device, t_inst, t_dev, t_ret,
                   t_fast, calls, n_created, n_init, n_reset, n_loads, n_models>>

\* line 86 raises (the device cannot be used); lines 91-92 raise RuntimeError
LoadToFails(t) ==
    /\ pc[t] = "load_to"
    /\ UNCHANGED <<emaVars, mvVars, frVars, prVars, plVars, adVars, alVars, lbVars, dbVars, fpVars>>
    /\ LoadEnds(t, [kind |-> "raise", val |-> 0])
    /\ UNCHANGED <<instance, lock, model, processor, device, t_inst, t_dev, t_fast,
                   n_created, n_init, n_reset, n_loads, n_models>>

\* line 94: return self.model
LoadReturn(t) ==
    /\ pc[t] = "load_return"
    /\ UNCHANGED <<emaVars, mvVars, frVars, prVars, plVars, adVars, alVars, lbVars, dbVars, fpVars>>
    /\ LoadEnds(t, [kind |-> "model", val |-> model])
    /\ UNCHANGED <<instance, lock, model, processor, device, t_inst, t_dev, t_fast,
                   n_created, n_init, n_reset, n_loads, n_models>>

NextLoader ==
    \/ \E t \in Threads : NewCall(t)
    \/ \E t \in Threads : NewCheck1(t)
    \/ \E t \in Threads : NewAcquire(t)
    \/ \E t \in Threads : NewCheck2(t)
    \/ \E t \in Threads : NewCreate(t)
    \/ \E t \in Threads : NewModel(t)
    \/ \E t \in Threads : NewProcessor(t)
    \/ \E t \in Threads : NewDevice(t)
    \/ \E t \in Threads : NewRelease(t)
    \/ \E t \in Threads : NewReturn(t)
    \/ \E t \in Threads : LoadCheck(t)
    \/ \E t \in Threads : LoadDevice(t)
    \/ \E t \in Threads : LoadTorch(t)
    \/ \E t \in Threads : LoadTorchFails(t)
    \/ \E t \in Threads : LoadModel(t)
    \/ \E t \in Threads : LoadProcessor(t)
    \/ \E t \in Threads : LoadTo(t)
    \/ \E t \in Threads : LoadToFails(t)
    \/ \E t \in Threads : LoadReturn(t)

-----------------------------------------------------------------------------
(* ml/inference.py: predict_frame, predict_batch.  The model's forward pass *)
(* is outside the repository: each frame is given a fixed vector of         *)
(* positive weights (the exponentials of its logits), and softmax divides   *)
(* each weight by their sum.                                                *)

DefaultTopK == 3

\* frames: None, a zero-size array, an array cv2.cvtColor rejects, and two
\* frames the model scores differently
FrameValues == {"None", "empty", "bad", "a", "b"}
Degenerate == {"None", "empty"}
GoodFrames == {"a", "b"}

\* what the collaborators do in a call: all succeed, the processor raises,
\* the model raises, the model returns an object without logits
Envs == {"ok", "processor_raises", "model_raises", "no_logits"}

TopKValues == -1..MaxTopK

\* exp(logit) of index i (0-based) for a frame, n scores per frame: frame "a"
\* scores higher indices higher, frame "b" scores even indices higher (ties)
Weights(f, n) ==
    [i \in 0..(n - 1) |-> IF f = "a" THEN i + 1 ELSE IF i % 2 = 0 THEN 2 ELSE 1]

RECURSIVE SumUpTo(_, _)
SumUpTo(w, i) == IF i < 0 THEN 0 ELSE w[i] + SumUpTo(w, i - 1)

\* torch.nn.functional.softmax(outputs.logits, dim=-1), one row
Softmax(f, n) == [i \in 0..(n - 1) |-> Rat(Weights(f, n)[i], SumUpTo(Weights(f, n), n - 1))]

\* x >= y on rationals
RGeq(x, y) == x[1] * y[2] >= y[1] * x[2]

\* the k first indices, whatever their values
TopK_FirstK(p, k) == {[j \in 1..k |-> j - 1]}

\* the index sequences that take a largest remaining entry k times
RECURSIVE TopKFrom(_, _, _)
TopKFrom(p, rest, k) ==
    IF k = 0 THEN {<<>>}
    ELSE UNION {{<<i>> \o s : s \in TopKFrom(p, rest \ {i}, k - 1)} :
                 i \in {i \in rest : \A j \in rest : RGeq(p[i], p[j])}}

\* torch.topk(p, k), 0 <= k <= len(p): the indices of k largest entries, by
\* descending value; equal values come in an order torch leaves open
TopK(p, k) == TopKFrom(p, DOMAIN p, k)

\* k is the number of scores, whatever top_k is
ClampK_All(top_k, n) == n

\* k = min(top_k, len(probs))
ClampK(top_k, n) == IF top_k < n THEN top_k ELSE n

\* {i: str(i) for i in range(n)}
Synthetic(n) == [i \in 0..(n - 1) |-> <<"str", i>>]

\* id2label = getattr(model.config, "id2label", None), replaced when None
Mapping(cfg, n) == IF cfg.kind = "None" THEN Synthetic(n) ELSE cfg.map

\* {id2label[idx]: prob for prob, idx in zip(topk.values, topk.indices)}:
\* a later pair with the same name replaces the earlier one
DictOf(s, p, names) ==
    LET keys == {names[s[j]] : j \in 1..Len(s)}
        last(nm) == CHOOSE j \in 1..Len(s) :
                        /\ names[s[j]] = nm
                        /\ \A m \in 1..Len(s) : names[s[m]] = nm => m <= j
    IN  [nm \in keys |-> p[s[last(nm)]]]

EmptyDict == [nm \in {} |-> 0]

\* lines 39-44 and 64-70: top-k of one row of probabilities as a dict; the
\* outcomes are the dicts that can result, or a raise (torch.topk rejects
\* k < 0 and k > len(p), id2label[idx] raises KeyError)
Decode(p, top_k, cfg) ==
    LET n == Cardinality(DOMAIN p)
        k == ClampK(top_k, n)
        names == Mapping(cfg, n)
    IN  IF k < 0 \/ k > n
        THEN {[kind |-> "raise", val |-> EmptyDict, cause |-> "RuntimeError: topk"]}
        ELSE {IF \A j \in 1..k : s[j] \in DOMAIN names
              THEN [kind |-> "dict", val |-> DictOf(s, p, names), cause |-> ""]
              ELSE [kind |-> "raise", val |-> EmptyDict, cause |-> "KeyError"] :
              s \in TopK(p, k)}

\* the call returns val
Returns(val, pcalls, mcalls) ==
    [kind |-> "return", val |-> val, prefix |-> "", cause |-> "",
     processor_calls |-> pcalls, model_calls |-> mcalls]

\* the failure is dropped and an empty result returned
Wrap_Swallow(prefix, cause, pcalls, mcalls) == Returns(EmptyDict, pcalls, mcalls)

\* except Exception as e: raise RuntimeError(f"<prefix>: {e}")
Wrap(prefix, cause, pcalls, mcalls) ==
    [kind |-> "RuntimeError", val |-> EmptyDict, prefix |-> prefix, cause |-> cause,
     processor_calls |-> pcalls, model_calls |-> mcalls]

\* what cv2.cvtColor and Image.fromarray do with a frame (bgr_to_pil)
Converts(frame) == frame \in GoodFrames

\* the steps both functions share from the processor call to the softmax:
\* the failure they end in, or "" when the probabilities are computed
Forward(env) ==
    IF env = "processor_raises"
    THEN [cause |-> "processor failed", processor_calls |-> 1, model_calls |-> 0]
    ELSE IF env = "model_raises"
    THEN [cause |-> "model failed", processor_calls |-> 1, model_calls |-> 1]
    ELSE IF env = "no_logits"
    THEN [cause |-> "AttributeError: logits", processor_calls |-> 1, model_calls |-> 1]
    ELSE [cause |-> "", processor_calls |-> 1, model_calls |-> 1]

\* predict_frame(frame, top_k): its possible outcomes
Predict_frame(frame, top_k, env, n, cfg) ==
    IF frame \in Degenerate
    THEN {Wrap("Prediction failed", "ValueError: Frame is empty or None", 0, 0)}
    ELSE IF ~Converts(frame)
    THEN {Wrap("Prediction failed", "ValueError: Failed to convert BGR to PIL", 0, 0)}
    ELSE IF Forward(env).cause # ""
    THEN {Wrap("Prediction failed", Forward(env).cause,
               Forward(env).processor_calls, Forward(env).model_calls)}
    ELSE {IF d.kind = "dict" THEN Returns(d.val, 1, 1)
          ELSE Wrap("Prediction failed", d.cause, 1, 1) :
          d \in Decode(Softmax(frame, n), top_k, cfg)}

\* the list is treated as empty for every list
IsEmptyList_Never(frames) == FALSE

\* if not frames
IsEmptyList(frames) == frames = <<>>

\* the rows are taken last frame first
Rows_Reversed(frames, n) ==
    [i \in 1..Len(frames) |-> Softmax(frames[Len(frames) + 1 - i], n)]

\* probs: one row of probabilities per frame, in the order of the frames
Rows(frames, n) == [i \in 1..Len(frames) |-> Softmax(frames[i], n)]

\* predict_batch(frames, top_k): its possible outcomes
Predict_batch(frames, top_k, env, n, cfg) ==
    IF IsEmptyList(frames)
    THEN {Returns(<<>>, 0, 0)}
    ELSE IF \E i \in 1..Len(frames) : ~Converts(frames[i])
    THEN {Wrap("Batch prediction failed", "ValueError: Failed to convert BGR to PIL", 0, 0)}
    ELSE IF Forward(env).cause # ""
    THEN {Wrap("Batch prediction failed", Forward(env).cause,
               Forward(env).processor_calls, Forward(env).model_calls)}
    ELSE LET rows == Rows(frames, n)
             outs == [i \in 1..Len(frames) |-> Decode(rows[i], top_k, cfg)]
             all == UNION {outs[i] : i \in 1..Len(frames)}
         IN  {IF \A i \in 1..Len(frames) : r[i].kind = "dict"
              THEN Returns([i \in 1..Len(frames) |-> r[i].val], 1, 1)
              ELSE Wrap("Batch prediction failed",
                        r[CHOOSE i \in 1..Len(frames) :
                            /\ r[i].kind # "dict"
                            /\ \A j \in 1..(i - 1) : r[j].kind = "dict"].cause, 1, 1) :
              r \in {r \in [1..Len(frames) -> all] :
                        \A i \in 1..Len(frames) : r[i] \in outs[i]}}

\* model.config.id2label of the loaded model: absent or None, the labels of
\* ml/labels.py, the stringified indices of SimpleViTModel, a dict with two
\* indices under one name, a dict lacking the last index
Configs(n) ==
    {[kind |-> "None", map |-> EmptyDict],
     [kind |-> "dict", map |-> [i \in 0..(n - 1) |-> <<"label", i>>]],
     [kind |-> "dict", map |-> [i \in 0..(n - 1) |-> <<"str", i>>]],
     [kind |-> "dict", map |-> [i \in 0..(n - 1) |-> <<"label", i \div 2>>]],
     [kind |-> "dict", map |-> [i \in 0..(n - 2) |-> <<"label", i>>]]}

NoCall == [kind |-> "none", val |-> EmptyDict, prefix |-> "", cause |-> ""]

Predict_init ==
    /\ n_out \in 1..MaxOutputs
    /\ id2label \in Configs(n_out)
    /\ pr_fn = "none"
    /\ pr_frames = <<>>
    /\ pr_top_k = DefaultTopK
    /\ pr_env = "ok"
    /\ pr_out = NoCall
    /\ processor_calls = 0
    /\ model_calls = 0

Predict_idle ==
    /\ n_out = 1
    /\ id2label = [kind |-> "None", map |-> EmptyDict]
    /\ pr_fn = "none"
    /\ pr_frames = <<>>
    /\ pr_top_k = DefaultTopK
    /\ pr_env = "ok"
    /\ pr_out = NoCall
    /\ processor_calls = 0
    /\ model_calls = 0

\* the call has ended with outcome o
Called(fn, frames, top_k, env, o) ==
    /\ pr_fn' = fn
    /\ pr_frames' = frames
    /\ pr_top_k' = top_k
    /\ pr_env' = env
    /\ pr_out' = [kind |-> o.kind, val |-> o.val, prefix |-> o.prefix, cause |-> o.cause]
    /\ processor_calls' = o.processor_calls
    /\ model_calls' = o.model_calls
    /\ UNCHANGED <<n_out, id2label>>

\* one call of predict_frame(frame, top_k)
PredictFrame(frame, top_k, env) ==
    /\ pr_fn = "none"
    /\ \E o \in Predict_frame(frame, top_k, env, n_out, id2label) :
           Called("predict_frame", <<frame>>, top_k, env, o)
    /\ UNCHANGED <<emaVars, mvVars, frVars, mlVars, plVars, adVars, alVars, lbVars, dbVars, fpVars>>

\* one call of predict_batch(frames, top_k)
PredictBatch(frames, top_k, env) ==
    /\ pr_fn = "none"
    /\ \E o \in Predict_batch(frames, top_k, env, n_out, id2label) :
           Called("predict_batch", frames, top_k, env, o)
    /\ UNCHANGED <<emaVars, mvVars, frVars, mlVars, plVars, adVars, alVars, lbVars, dbVars, fpVars>>

FrameLists == UNION {[1..m -> FrameValues] : m \in 0..MaxBatch}

NextPredict ==
    \/ \E frame \in FrameValues, top_k \in TopKValues, env \in Envs :
           PredictFrame(frame, top_k, env)
    \/ \E frames \in FrameLists, top_k \in TopKValues, env \in Envs :
           PredictBatch(frames, top_k, env)

-----------------------------------------------------------------------------
(* ml/test.py: main, the pipeline from a video file to printed results *)

\* what one cap.read() gives: a frame the model scores, or ret = False
\* because the frame cannot be decoded
ReadValues == {"a", "b", "undecodable"}

Streams == UNION {[1..m -> ReadValues] : m \in 0..MaxStream}

\* fps_out=2 of the iter_frames call
MainFpsOut == 2

NotReturned == -1

\* the number of reads before the first one that gives ret = False
RECURSIVE ReadsBeforeStop(_, _)
ReadsBeforeStop(stream, c) ==
    IF c >= Len(stream) \/ stream[c + 1] = "undecodable" THEN c
    ELSE ReadsBeforeStop(stream, c + 1)

\* for frame in iter_frames(...): frames.append(frame), from the read of
\* frame c on: the positions appended, or the ZeroDivisionError
RECURSIVE Drain(_, _, _)
Drain(c, interval, n) ==
    LET r == ReadLoop(c, interval, n)
    IN  IF r.kind = "zerodiv" THEN [kind |-> "zerodiv", frames |-> <<>>]
        ELSE IF r.kind = "end" THEN [kind |-> "end", frames |-> <<>>]
        ELSE LET d == Drain(r.count + 1, interval, n)
             IN  [kind |-> d.kind, frames |-> <<r.count>> \o d.frames]

Pipeline_init ==
    /\ pl_source \in Sources
    /\ pl_stream \in Streams
    /\ pl_source # "video" => pl_stream = <<>>
    /\ pl_native \in NativeRates
    /\ pl_env \in Envs
    /\ pl_pc = "start"
    /\ pl_frames = <<>>
    /\ pl_reported = <<>>
    /\ pl_ret = NotReturned
    /\ pl_err = ""

Pipeline_idle ==
    /\ pl_source = "missing"
    /\ pl_stream = <<>>
    /\ pl_native = 0
    /\ pl_env = "ok"
    /\ pl_pc = "start"
    /\ pl_frames = <<>>
    /\ pl_reported = <<>>
    /\ pl_ret = NotReturned
    /\ pl_err = ""

\* main ends: return r after printing err
MainReturns(r, err) ==
    /\ pl_pc' = "done"
    /\ pl_ret' = r
    /\ pl_err' = err

\* lines 14-33: the existence check, the loop over iter_frames that collects
\* every frame, and the check that some frame was collected
MainCollect ==
    /\ pl_pc = "start"
    /\ UNCHANGED <<emaVars, mvVars, frVars, mlVars, prVars, adVars, alVars, lbVars, dbVars, fpVars>>
    /\ UNCHANGED <<pl_source, pl_stream, pl_native, pl_env, pl_reported>>
    /\ IF pl_source = "missing"
       THEN MainReturns(1, "Video file not found") /\ pl_frames' = <<>>
       ELSE IF pl_source = "corrupt"
       THEN MainReturns(1, "Runtime error") /\ pl_frames' = <<>>
       ELSE LET d == Drain(0, FrameInterval(pl_native, MainFpsOut),
                           ReadsBeforeStop(pl_stream, 0))
            IN  /\ pl_frames' = d.frames
                /\ IF d.kind = "zerodiv"
                   THEN MainReturns(1, "Unexpected error")
                   ELSE IF d.frames = <<>>
                   THEN MainReturns(1, "No frames extracted from video")
                   ELSE /\ pl_pc' = "collected"
                        /\ UNCHANGED <<pl_ret, pl_err>>

\* lines 35-43 and 48-50: one predict_batch call on all the frames, then one
\* printed line per result
MainPredict ==
    /\ pl_pc = "collected"
    /\ UNCHANGED <<emaVars, mvVars, frVars, mlVars, prVars, adVars, alVars, lbVars, dbVars, fpVars>>
    /\ UNCHANGED <<pl_source, pl_stream, pl_native, pl_env, pl_frames>>
    /\ \E o \in Predict_batch([i \in 1..Len(pl_frames) |-> pl_stream[pl_frames[i] + 1]],
                              DefaultTopK, pl_env, n_out, id2label) :
          IF o.kind = "return"
          THEN /\ pl_reported' = [i \in 1..Len(o.val) |-> pl_frames[i]]
               /\ MainReturns(0, "")
          ELSE /\ pl_reported' = <<>>
               /\ MainReturns(1, "Runtime error")

NextPipeline == MainCollect \/ MainPredict

-----------------------------------------------------------------------------
(* AlertDecider: the state machine from a smoothed observation (label,     *)
(* confidence) to at most one Alert, with the configuration values of      *)
(* core/config.py.  A disqualifying observation resets the streak to 0 and *)
(* the next observation is evaluated from Idle.                            *)

\* THRESHOLD: float = float(os.getenv("THRESHOLD", 0.7))
THRESHOLD == Rat(7, 10)

\* CONSECUTIVE: int = int(os.getenv("CONSECUTIVE", 3))
DefaultConsecutive == 3

NoTracked == -1

AlertLabels == {0, 1}
Confidences == {Rat(1, 2), Rat(7, 10), Rat(9, 10)}

\* the streak must exceed CONSECUTIVE before the Alert is emitted
Decide_FireLate(self, label, conf) ==
    IF RGeq(conf, THRESHOLD) /\ (self.tracked = NoTracked \/ label = self.tracked)
    THEN IF self.state = "Fired"
         THEN [state |-> "Fired", streak |-> self.streak + 1, tracked |-> label, emit |-> 0]
         ELSE IF self.streak + 1 > self.consecutive
         THEN [state |-> "Fired", streak |-> self.streak + 1, tracked |-> label, emit |-> 1]
         ELSE [state |-> "Accumulating", streak |-> self.streak + 1, tracked |-> label,
               emit |-> 0]
    ELSE [state |-> "Idle", streak |-> 0, tracked |-> NoTracked, emit |-> 0]

\* a qualifying observation in Fired emits again
Decide_ReEmit(self, label, conf) ==
    IF RGeq(conf, THRESHOLD) /\ (self.tracked = NoTracked \/ label = self.tracked)
    THEN IF self.streak + 1 >= self.consecutive
         THEN [state |-> "Fired", streak |-> self.streak + 1, tracked |-> label, emit |-> 1]
         ELSE [state |-> "Accumulating", streak |-> self.streak + 1, tracked |-> label,
               emit |-> 0]
    ELSE [state |-> "Idle", streak |-> 0, tracked |-> NoTracked, emit |-> 0]

\* Fired is left only by a low confidence, not by another label
Decide_FiredIgnoresLabel(self, label, conf) ==
    IF self.state = "Fired" /\ RGeq(conf, THRESHOLD)
    THEN [state |-> "Fired", streak |-> self.streak + 1, tracked |-> self.tracked, emit |-> 0]
    ELSE IF RGeq(conf, THRESHOLD) /\ (self.tracked = NoTracked \/ label = self.tracked)
    THEN IF self.streak + 1 = self.consecutive
         THEN [state |-> "Fired", streak |-> self.streak + 1, tracked |-> label, emit |-> 1]
         ELSE [state |-> "Accumulating", streak |-> self.streak + 1, tracked |-> label,
               emit |-> 0]
    ELSE [state |-> "Idle", streak |-> 0, tracked |-> NoTracked, emit |-> 0]

\* one transition: the state after the observation and the number of Alerts
\* emitted for it
Decide(self, label, conf) ==
    IF RGeq(conf, THRESHOLD) /\ (self.tracked = NoTracked \/ label = self.tracked)
    THEN IF self.state = "Fired"
         THEN [state |-> "Fired", streak |-> self.streak + 1, tracked |-> label, emit |-> 0]
         ELSE IF self.streak + 1 = self.consecutive
         THEN [state |-> "Fired", streak |-> self.streak + 1, tracked |-> label, emit |-> 1]
         ELSE [state |-> "Accumulating", streak |-> self.streak + 1, tracked |-> label,
               emit |-> 0]
    ELSE [state |-> "Idle", streak |-> 0, tracked |-> NoTracked, emit |-> 0]

\* the observation carries on the run of same-label observations at or above
\* THRESHOLD
Qualifies(run, label, conf) ==
    /\ RGeq(conf, THRESHOLD)
    /\ run = <<>> \/ run[1].label = label

\* Initial state: Idle, streak = 0, tracked label = none
Decider_init ==
    /\ ad_consecutive \in 1..MaxConsecutive
    /\ ad_state = "Idle"
    /\ ad_streak = 0
    /\ ad_tracked = NoTracked
    /\ ad_emitted = 0
    /\ ad_alerts = 0
    /\ ad_n = 0
    /\ ad_prev = "Idle"
    /\ ad_run = <<>>
    /\ ad_run_alerts = 0
    /\ ad_breaks = 0

Decider_idle ==
    /\ ad_consecutive = DefaultConsecutive
    /\ ad_state = "Idle"
    /\ ad_streak = 0
    /\ ad_tracked = NoTracked
    /\ ad_emitted = 0
    /\ ad_alerts = 0
    /\ ad_n = 0
    /\ ad_prev = "Idle"
    /\ ad_run = <<>>
    /\ ad_run_alerts = 0
    /\ ad_breaks = 0

\* the decider is fed one smoothed observation
DeciderUpdate(label, conf) ==
    /\ ad_n < MaxObs
    /\ UNCHANGED <<emaVars, mvVars, frVars, mlVars, prVars, plVars, alVars, lbVars, dbVars, fpVars>>
    /\ LET d == Decide([state |-> ad_state, streak |-> ad_streak, tracked |-> ad_tracked,
                        consecutive |-> ad_consecutive], label, conf)
       IN  /\ ad_state' = d.state
           /\ ad_streak' = d.streak
           /\ ad_tracked' = d.tracked
           /\ ad_emitted' = d.emit
           /\ ad_alerts' = ad_alerts + d.emit
           /\ ad_n' = ad_n + 1
           /\ ad_prev' = ad_state
           /\ IF Qualifies(ad_run, label, conf)
              THEN /\ ad_run' = Append(ad_run, [label |-> label, conf |-> conf])
                   /\ ad_run_alerts' = ad_run_alerts + d.emit
                   /\ ad_breaks' = ad_breaks
              ELSE /\ ad_run' = <<>>
                   /\ ad_run_alerts' = d.emit
                   /\ ad_breaks' = ad_breaks + 1
           /\ UNCHANGED ad_consecutive

NextDecider == \E label \in AlertLabels, conf \in Confidences : DeciderUpdate(label, conf)

-----------------------------------------------------------------------------
(* ml/smoothing.py: EMA.update with the identity of the arrays.            *)
(* np.asarray(probs, dtype=float) makes a new array from a list and        *)
(* returns the argument itself when it is a float ndarray; tolist() makes  *)
(* a new list.                                                             *)

\* what the caller passes: a list, or the float ndarray it holds
ArgKinds == {"list", "ndarray"}

\* vectors of one length, so that no update raises
AliasVectors == [1..MaxClasses -> ProbValues]

\* content of self.ema
StoredEMA == IF al_ref = "arg" THEN arg_arr ELSE own_arr

\* the array object self.ema refers to after update: the object np.asarray
\* returned on the first update, a new object afterwards
RefAfter(kind, was_initialized) ==
    IF ~was_initialized /\ kind = "ndarray" THEN "arg" ELSE "own"

Alias_init ==
    /\ al_alpha \in {Rat(1, 4), Rat(1, 2)}
    /\ al_initialized = FALSE
    /\ al_ref = "own"
    /\ own_arr = Zeros(MaxClasses)
    /\ arg_arr \in AliasVectors
    /\ al_ret = <<>>
    /\ al_at_return = Zeros(MaxClasses)
    /\ al_calls = 0
    /\ al_writes = 0

Alias_idle ==
    /\ al_alpha = Rat(1, 2)
    /\ al_initialized = FALSE
    /\ al_ref = "own"
    /\ own_arr = Zeros(MaxClasses)
    /\ arg_arr = Zeros(MaxClasses)
    /\ al_ret = <<>>
    /\ al_at_return = Zeros(MaxClasses)
    /\ al_calls = 0
    /\ al_writes = 0

\* update(probs) with probs a list (kind "list") or the caller's ndarray
AliasUpdate(kind, probs) ==
    /\ al_calls < MaxUpdates
    /\ kind = "ndarray" => probs = arg_arr
    /\ UNCHANGED <<emaVars, mvVars, frVars, mlVars, prVars, plVars, adVars, lbVars, dbVars, fpVars>>
    /\ LET r == EMA_update([alpha |-> al_alpha, ema |-> StoredEMA,
                            initialized |-> al_initialized], probs)
           ref == RefAfter(kind, al_initialized)
       IN  /\ al_initialized' = r.initialized
           /\ al_ref' = ref
           /\ own_arr' = IF ref = "own" THEN r.ema ELSE own_arr
           /\ al_ret' = r.ret.val
           /\ al_at_return' = r.ema
           /\ al_calls' = al_calls + 1
           /\ UNCHANGED <<al_alpha, arg_arr, al_writes>>

\* the caller assigns to an entry of the ndarray it holds: arr[k] = v
CallerWritesArray(k, v) ==
    /\ al_writes < MaxWrites
    /\ UNCHANGED <<emaVars, mvVars, frVars, mlVars, prVars, plVars, adVars, lbVars, dbVars, fpVars>>
    /\ arg_arr' = [arg_arr EXCEPT ![k] = v]
    /\ al_writes' = al_writes + 1
    /\ UNCHANGED <<al_alpha, al_initialized, al_ref, own_arr, al_ret, al_at_return, al_calls>>

\* the caller assigns to an entry of the list update returned: result[k] = v
CallerWritesResult(k, v) ==
    /\ al_writes < MaxWrites
    /\ al_ret # <<>>
    /\ UNCHANGED <<emaVars, mvVars, frVars, mlVars, prVars, plVars, adVars, lbVars, dbVars, fpVars>>
    /\ al_ret' = [al_ret EXCEPT ![k] = v]
    /\ al_writes' = al_writes + 1
    /\ UNCHANGED <<al_alpha, al_initialized, al_ref, own_arr, arg_arr, al_at_return, al_calls>>

NextAlias ==
    \/ \E kind \in ArgKinds, probs \in AliasVectors : AliasUpdate(kind, probs)
    \/ \E k \in 1..MaxClasses, v \in ProbValues : CallerWritesArray(k, v)
    \/ \E k \in 1..MaxClasses, v \in ProbValues : CallerWritesResult(k, v)

-----------------------------------------------------------------------------
(* ml/labels.py: LABELS, LABEL2ID, ID2LABEL *)

LABELS ==
    <<"Abuse", "Arrest", "Arson", "Assault", "Burglary", "Explosion", "Fighting", "Normal",
      "RoadAccidents", "Robbery", "Shooting", "Shoplifting", "Stealing", "Vandalism">>

\* the indices of enumerate(LABELS)
LabelIds == 0..(Len(LABELS) - 1)

\* {label: i for i, label in enumerate(LABELS)}: were a name listed twice,
\* its last index would stay
LABEL2ID ==
    [label \in {LABELS[k] : k \in 1..Len(LABELS)} |->
        CHOOSE i \in LabelIds :
            /\ LABELS[i + 1] = label
            /\ \A j \in LabelIds : LABELS[j + 1] = label => j <= i]

\* every index is given the name before its own, index 0 the last name
ID2LABEL_Shifted ==
    [i \in LabelIds |-> IF i = 0 THEN LABELS[Len(LABELS)] ELSE LABELS[i]]

\* {i: label for i, label in enumerate(LABELS)}
ID2LABEL == [i \in LabelIds |-> LABELS[i + 1]]

Labels_init == lb_log = <<>>

Labels_idle == lb_log = <<>>

\* LABEL2ID[ID2LABEL[i]]
LookupIndex(i) ==
    /\ Len(lb_log) < MaxLookups
    /\ UNCHANGED <<emaVars, mvVars, frVars, mlVars, prVars, plVars, adVars, alVars, dbVars, fpVars>>
    /\ lb_log' = Append(lb_log, [kind |-> "index", index |-> i, name |-> ID2LABEL[i],
                                 back |-> <<LABEL2ID[ID2LABEL[i]]>>])

\* ID2LABEL[LABEL2ID[name]]
LookupName(name) ==
    /\ Len(lb_log) < MaxLookups
    /\ UNCHANGED <<emaVars, mvVars, frVars, mlVars, prVars, plVars, adVars, alVars, dbVars, fpVars>>
    /\ lb_log' = Append(lb_log, [kind |-> "name", index |-> LABEL2ID[name], name |-> name,
                                 back |-> <<ID2LABEL[LABEL2ID[name]]>>])

NextLabels ==
    \/ \E i \in LabelIds : LookupIndex(i)
    \/ \E k \in 1..Len(LABELS) : LookupName(LABELS[k])

-----------------------------------------------------------------------------
(* auth/db.py: create_user, delete_user, update_user_password on one       *)
(* session.  A row is a record of id, username, hashed_password and role;  *)
(* a hash is the password with the random salt it was hashed with.         *)

Usernames == {"alice", "bob"}
Passwords == {"pw1", "pw2"}
Salts == {1, 2}
\* role arguments: the two valid roles and one that is not
Roles == {"admin", "user", "root"}

\* generate_password_hash(password, method='pbkdf2:sha256')
Hash(password, salt) == <<"pbkdf2:sha256", salt, password>>

\* db.query(User).filter(User.username == username).first()
RowsNamed(rows, username) == {r \in rows : r.username = username}

\* the id SQLite gives a new row: one more than the largest id in the table
NextId(rows) ==
    IF rows = {} THEN 1
    ELSE 1 + CHOOSE m \in {r.id : r \in rows} : \A r \in rows : r.id <= m

NoDbCall == [fn |-> "none", username |-> "", password |-> "", role |-> ""]
NoDbOut == [kind |-> "none", val |-> ""]

\* the role is not checked and the row is added whether or not the name is taken
Create_user_NoExistenceCheck(rows, username, password, role, salt) ==
    [users |-> rows \cup {[id |-> NextId(rows), username |-> username,
                            hashed_password |-> Hash(password, salt), role |-> role]},
     out |-> [kind |-> "return", val |-> username]]

\* create_user(db, username, password, role): the table afterwards and the
\* outcome
Create_user(rows, username, password, role, salt) ==
    IF role \notin {"admin", "user"}
    THEN [users |-> rows, out |-> [kind |-> "ValueError", val |-> "Invalid role"]]
    ELSE IF RowsNamed(rows, username) # {}
    THEN [users |-> rows, out |-> [kind |-> "ValueError", val |-> "already exists"]]
    ELSE [users |-> rows \cup {[id |-> NextId(rows), username |-> username,
                                 hashed_password |-> Hash(password, salt), role |-> role]},
          out |-> [kind |-> "return", val |-> username]]

\* init_db() on a new database: an empty table
Db_init ==
    /\ users = {}
    /\ db_before = {}
    /\ db_call = NoDbCall
    /\ db_out = NoDbOut
    /\ db_calls = 0

Db_idle == Db_init

\* one call on the table has ended
DbCalled(fn, username, password, role, rows, out) ==
    /\ db_calls < MaxDbCalls
    /\ users' = rows
    /\ db_before' = users
    /\ db_call' = [fn |-> fn, username |-> username, password |-> password, role |-> role]
    /\ db_out' = out
    /\ db_calls' = db_calls + 1
    /\ UNCHANGED <<emaVars, mvVars, frVars, mlVars, prVars, plVars, adVars, alVars, lbVars, fpVars>>

CreateUser(username, password, role, salt) ==
    LET r == Create_user(users, username, password, role, salt)
    IN  DbCalled("create_user", username, password, role, r.users, r.out)

\* delete_user(db, username)
DeleteUser(username) ==
    IF RowsNamed(users, username) # {}
    THEN \E u \in RowsNamed(users, username) :
            DbCalled("delete_user", username, "", "", users \ {u},
                     [kind |-> "return", val |-> "True"])
    ELSE DbCalled("delete_user", username, "", "", users,
                  [kind |-> "return", val |-> "False"])

\* update_user_password(db, username, new_password)
UpdateUserPassword(username, new_password, salt) ==
    IF RowsNamed(users, username) # {}
    THEN \E u \in RowsNamed(users, username) :
            DbCalled("update_user_password", username, new_password, "",
                     (users \ {u}) \cup
                         {[u EXCEPT !.hashed_password = Hash(new_password, salt)]},
                     [kind |-> "return", val |-> "True"])
    ELSE DbCalled("update_user_password", username, new_password, "", users,
                  [kind |-> "return", val |-> "False"])

NextDb ==
    \/ \E username \in Usernames, password \in Passwords, role \in Roles, salt \in Salts :
           CreateUser(username, password, role, salt)
    \/ \E username \in Usernames : DeleteUser(username)
    \/ \E username \in Usernames, password \in Passwords, salt \in Salts :
           UpdateUserPassword(username, password, salt)

-----------------------------------------------------------------------------
(* ml/smoothing.py: EMA on binary floating-point numbers                   *)
(* np.asarray(probs, dtype=float) holds IEEE binary floats and every       *)
(* element-wise product, difference and sum is rounded to the nearest      *)
(* float, a tie going to the even significand.  The format here has        *)
(* FloatBits significand bits and an unbounded exponent: a float is an     *)
(* exact rational m * 2^e with m < 2^FloatBits.                            *)

RECURSIVE Pow2(_)
Pow2(k) == IF k = 0 THEN 1 ELSE 2 * Pow2(k - 1)

\* the least d * 2^j with n / (d * 2^j) < 2^FloatBits
RECURSIVE ScaleDown(_, _)
ScaleDown(n, d) == IF n < Pow2(FloatBits) * d THEN d ELSE ScaleDown(n, 2 * d)

\* the least n * 2^j with (n * 2^j) / d >= 2^(FloatBits - 1), for n > 0
RECURSIVE ScaleUp(_, _)
ScaleUp(n, d) == IF n >= Pow2(FloatBits - 1) * d THEN n ELSE ScaleUp(2 * n, d)

\* the float nearest to the non-negative rational x, ties to even
Fl(x) ==
    IF x[1] = 0 THEN RZero
    ELSE LET n == x[1]
             d == x[2]
             d1 == ScaleDown(n, d)
             n1 == ScaleUp(n, d1)
             m == Round(n1, d1)
         IN  Rat(m * n * d1, d * n1)

FMul(x, y) == Fl(RMul(x, y))
FAdd(x, y) == Fl(RAdd(x, y))
FSub(x, y) == Fl(RSub(x, y))

\* values an entry of an observation takes: floats k/16
FloatProbs == {Rat(k, 16) : k \in 0..16}
\* observations: two floats whose exact sum is 1
FloatVectors == {<<q, RSub(ROne, q)>> : q \in FloatProbs}
\* values of alpha, floats in (0, 1]
FloatAlphas == {Rat(3, 16), Rat(1, 4), Rat(1, 2), Rat(5, 8), ROne}

\* mutant: the stored state is added without the weight 1 - alpha
BlendFl_NoDecay(a, probs_arr, e) ==
    [k \in 1..Len(probs_arr) |-> FAdd(FMul(a, probs_arr[k]), e[k])]

\* alpha * probs_arr + (1 - alpha) * ema, element-wise, on arrays of one shape:
\* 1 - alpha is rounded once, then each product and each sum is rounded
BlendFl(a, probs_arr, e) ==
    [k \in 1..Len(probs_arr) |->
        FAdd(FMul(a, probs_arr[k]), FMul(FSub(ROne, a), e[k]))]

\* EMA.update on float arrays of one shape
EMA_update_float(self, probs) ==
    LET probs_arr == probs
    IN  IF ~self.initialized
        THEN [ema |-> probs_arr, initialized |-> TRUE, ret |-> probs_arr]
        ELSE LET e == BlendFl(self.alpha, probs_arr, self.ema)
             IN  [ema |-> e, initialized |-> TRUE, ret |-> e]

RMin(x, y) == IF RGeq(x, y) THEN y ELSE x
RMax(x, y) == IF RGeq(x, y) THEN x ELSE y

\* EMA(alpha, num_classes=2) with alpha in (0, 1]
FloatEMA_init ==
    /\ fp_alpha \in FloatAlphas
    /\ fp_ema = Zeros(2)
    /\ fp_initialized = FALSE
    /\ fp_ret = <<>>
    /\ fp_lo = <<>>
    /\ fp_hi = <<>>
    /\ fp_calls = 0

\* no float EMA in use
FloatEMA_idle ==
    /\ fp_alpha = Rat(1, 2)
    /\ fp_ema = Zeros(2)
    /\ fp_initialized = FALSE
    /\ fp_ret = <<>>
    /\ fp_lo = <<>>
    /\ fp_hi = <<>>
    /\ fp_calls = 0

FloatEMA_self == [alpha |-> fp_alpha, ema |-> fp_ema, initialized |-> fp_initialized]

\* ema.update(probs) with a probability vector of floats
FloatEMAUpdate(probs) ==
    /\ fp_calls < MaxUpdates
    /\ UNCHANGED <<emaVars, mvVars, frVars, mlVars, prVars, plVars, adVars, alVars, lbVars,
                   dbVars>>
    /\ fp_ema' = EMA_update_float(FloatEMA_self, probs).ema
    /\ fp_initialized' = EMA_update_float(FloatEMA_self, probs).initialized
    /\ fp_ret' = EMA_update_float(FloatEMA_self, probs).ret
    /\ fp_lo' = IF fp_calls = 0 THEN probs
                ELSE [k \in 1..Len(probs) |-> RMin(fp_lo[k], probs[k])]
    /\ fp_hi' = IF fp_calls = 0 THEN probs
                ELSE [k \in 1..Len(probs) |-> RMax(fp_hi[k], probs[k])]
    /\ fp_calls' = fp_calls + 1
    /\ UNCHANGED fp_alpha

NextFloatEMA == \E probs \in FloatVectors : FloatEMAUpdate(probs)

-----------------------------------------------------------------------------
(* Specifications: one per component, the others at rest *)

InitEMA == EMA_init /\ MV_idle /\ Frames_idle /\ Loader_idle /\ Predict_idle /\ Pipeline_idle /\ Decider_idle /\ Alias_idle /\ Labels_idle /\ Db_idle /\ FloatEMA_idle
SpecEMA == InitEMA /\ [][NextEMA]_vars

InitMV == EMA_idle /\ MV_init /\ Frames_idle /\ Loader_idle /\ Predict_idle /\ Pipeline_idle /\ Decider_idle /\ Alias_idle /\ Labels_idle /\ Db_idle /\ FloatEMA_idle
SpecMV == InitMV /\ [][NextMV]_vars

InitFrames == EMA_idle /\ MV_idle /\ Frames_init /\ Loader_idle /\ Predict_idle /\ Pipeline_idle /\ Decider_idle /\ Alias_idle /\ Labels_idle /\ Db_idle /\ FloatEMA_idle
SpecFrames == InitFrames /\ [][NextFrames]_vars

InitLoader == EMA_idle /\ MV_idle /\ Frames_idle /\ Loader_init /\ Predict_idle /\ Pipeline_idle /\ Decider_idle /\ Alias_idle /\ Labels_idle /\ Db_idle /\ FloatEMA_idle
SpecLoader == InitLoader /\ [][NextLoader]_vars

InitPredict == EMA_idle /\ MV_idle /\ Frames_idle /\ Loader_idle /\ Predict_init /\ Pipeline_idle /\ Decider_idle /\ Alias_idle /\ Labels_idle /\ Db_idle /\ FloatEMA_idle
SpecPredict == InitPredict /\ [][NextPredict]_vars

\* main runs on the classifier that the module-level load produced
InitPipeline == EMA_idle /\ MV_idle /\ Frames_idle /\ Loader_idle /\ Predict_init /\ Pipeline_init /\ Decider_idle /\ Alias_idle /\ Labels_idle /\ Db_idle /\ FloatEMA_idle
SpecPipeline == InitPipeline /\ [][NextPipeline]_vars

InitDecider ==
    /\ EMA_idle /\ MV_idle /\ Frames_idle /\ Loader_idle /\ Predict_idle /\ Pipeline_idle
    /\ Decider_init /\ Alias_idle /\ Labels_idle /\ Db_idle /\ FloatEMA_idle
SpecDecider == InitDecider /\ [][NextDecider]_vars

InitAlias ==
    /\ EMA_idle /\ MV_idle /\ Frames_idle /\ Loader_idle /\ Predict_idle /\ Pipeline_idle
    /\ Decider_idle /\ Alias_init /\ Labels_idle /\ Db_idle /\ FloatEMA_idle
SpecAlias == InitAlias /\ [][NextAlias]_vars

InitLabels ==
    /\ EMA_idle /\ MV_idle /\ Frames_idle /\ Loader_idle /\ Predict_idle /\ Pipeline_idle
    /\ Decider_idle /\ Alias_idle /\ Labels_init /\ Db_idle /\ FloatEMA_idle
SpecLabels == InitLabels /\ [][NextLabels]_vars

InitDb ==
    /\ EMA_idle /\ MV_idle /\ Frames_idle /\ Loader_idle /\ Predict_idle /\ Pipeline_idle
    /\ Decider_idle /\ Alias_idle /\ Labels_idle /\ Db_init /\ FloatEMA_idle
SpecDb == InitDb /\ [][NextDb]_vars

InitFloatEMA ==
    /\ EMA_idle /\ MV_idle /\ Frames_idle /\ Loader_idle /\ Predict_idle /\ Pipeline_idle
    /\ Decider_idle /\ Alias_idle /\ Labels_idle /\ Db_idle /\ FloatEMA_init
SpecFloatEMA == InitFloatEMA /\ [][NextFloatEMA]_vars

Init == InitEMA \/ InitMV \/ InitFrames \/ InitLoader \/ InitPredict \/ InitPipeline \/ InitDecider
           \/ InitAlias \/ InitLabels \/ InitDb \/ InitFloatEMA
Next == NextEMA \/ NextMV \/ NextFrames \/ NextLoader \/ NextPredict \/ NextPipeline \/ NextDecider
           \/ NextAlias \/ NextLabels \/ NextDb \/ NextFloatEMA
Spec == Init /\ [][Next]_vars

-----------------------------------------------------------------------------
(* Properties of EMA, checked under SpecEMA *)

\* C1: an update call on a freshly constructed (uninitialized) EMA stores the
\* observation verbatim, sets initialized, and returns a vector equal to the
\* observation entry for entry, whatever alpha and num_classes were
C1_FirstUpdateStoresObservation ==
    \A i \in Instances :
        (ema_calls >= 1 /\ ~ema_was_init[i]) =>
            /\ ema[i] = ema_obs
            /\ initialized[i]
            /\ ema_ret[i].kind = "value"
            /\ Len(ema_ret[i].val) = Len(ema_obs)
            /\ \A k \in 1..Len(ema_obs) : ema_ret[i].val[k] = ema_obs[k]

\* C1 witness: a first update whose observation is longer than num_classes,
\* on an EMA whose alpha lies outside (0, 1], has returned the observation
C1_Witness ==
    \E i \in Instances :
        /\ ema_calls = 1
        /\ ~ema_was_init[i]
        /\ Len(ema_obs) > Len(ema_prev[i])
        /\ alpha[i] = Rat(3, 2)
        /\ ema_obs[1] = Rat(1, 2)
        /\ ema_ret[i].val = ema_obs

\* x = a * o + (1 - a) * p on rationals, by cross-multiplication
IsBlendOf(x, a, o, p) ==
    x[1] * a[2] * o[2] * p[2] = x[2] * (a[1] * o[1] * p[2] + (a[2] - a[1]) * p[1] * o[2])

\* C2: every update call after the first that is given a vector as long as the
\* stored one returns alpha * observation + (1 - alpha) * previous_EMA entry
\* for entry, and after every call that returns, the stored vector is the
\* returned vector
C2_LaterUpdateBlends ==
    \A i \in Instances :
        /\ (ema_was_init[i] /\ Len(ema_obs) = Len(ema_prev[i])) =>
              /\ ema_ret[i].kind = "value"
              /\ Len(ema_ret[i].val) = Len(ema_obs)
              /\ \A k \in 1..Len(ema_obs) :
                    IsBlendOf(ema_ret[i].val[k], alpha[i], ema_obs[k], ema_prev[i][k])
        /\ ema_ret[i].kind = "value" => ema[i] = ema_ret[i].val

\* C2 witness: a second update with alpha = 1/4 returned a vector that is
\* neither the observation nor the previous value
C2_Witness ==
    \E i \in Instances :
        /\ ema_was_init[i]
        /\ alpha[i] = Rat(1, 4)
        /\ Len(ema_obs) = 2
        /\ Len(ema_prev[i]) = 2
        /\ ema_ret[i].kind = "value"
        /\ ema_ret[i].val # ema_obs
        /\ ema_ret[i].val # ema_prev[i]
        /\ ema[i] = ema_ret[i].val

\* C3: two EMA instances constructed with the same alpha and fed the same
\* observations have, after every call, the same outcome of the call and the
\* same state, whatever num_classes each was constructed with
C3_Deterministic ==
    \A i, j \in Instances :
        (alpha[i] = alpha[j] /\ ema_calls >= 1) =>
            /\ ema_ret[i] = ema_ret[j]
            /\ ema[i] = ema[j]
            /\ initialized[i] = initialized[j]

\* C3 witness: two instances that started from np.zeros of different lengths
\* have both blended a second observation into the first
C3_Witness ==
    /\ alpha[1] = alpha[2]
    /\ ema_calls = 2
    /\ ema_ret[1].kind = "value"
    /\ ema_ret[2].kind = "value"
    /\ ema_ret[1].val # ema_obs
    /\ ema_ret[1].val # ema_prev[1]

-----------------------------------------------------------------------------
(* Properties of MajorityVote, checked under SpecMV *)

Min(a, b) == IF a < b THEN a ELSE b

\* the last n entries of s
LastN(s, n) == SubSeq(s, Len(s) - n + 1, Len(s))

\* C4: with window_size W >= 1, after n updates the history is the last
\* min(n, W) labels fed, in arrival order, and never holds more than W entries
C4_WindowHoldsLastLabels ==
    \A i \in Instances :
        window_size[i] >= 1 =>
            /\ queue[i] = LastN(mv_fed, Min(Len(mv_fed), window_size[i]))
            /\ Len(queue[i]) <= window_size[i]

\* C4 witness: two labels more than the window holds were fed, and the window
\* holds labels that differ from each other
C4_Witness ==
    \E i \in Instances :
        /\ window_size[i] = 2
        /\ Len(mv_fed) = 4
        /\ mv_fed[1] # mv_fed[3]
        /\ queue[i] = <<mv_fed[3], mv_fed[4]>>
        /\ mv_fed[3] # mv_fed[4]

\* C5: the label update returns occurs in the history as it is after the
\* append and the eviction, and no label occurs there more often
C5_ReturnsMostFrequent ==
    \A i \in Instances :
        mv_ret[i].kind = "value" =>
            /\ \E k \in 1..Len(queue[i]) : queue[i][k] = mv_ret[i].val
            /\ \A l \in Labels :
                  Cardinality({k \in 1..Len(queue[i]) : queue[i][k] = l})
                      <= Cardinality({k \in 1..Len(queue[i]) : queue[i][k] = mv_ret[i].val})

\* C5 witness: after an eviction the history holds two different labels, one
\* of them strictly more often, and that one was returned
C5_Witness ==
    \E i \in Instances :
        /\ Len(mv_fed) > window_size[i]
        /\ window_size[i] = 3
        /\ mv_ret[i].kind = "value"
        /\ Cardinality(SetOf(queue[i])) = 2
        /\ CountOf(queue[i], mv_ret[i].val) = 2
        /\ mv_ret[i].val # queue[i][3]

\* C6: the label returned is a fixed function of the history: two updates
\* that end with the same history return the same label, ties included
C6_TieBreakIsAFunctionOfHistory ==
    \A i, j \in Instances :
        (queue[i] = queue[j] /\ mv_ret[i].kind = "value" /\ mv_ret[j].kind = "value")
            => mv_ret[i].val = mv_ret[j].val

-----------------------------------------------------------------------------
(* Properties of iter_frames, checked under SpecFrames *)

\* i is a multiple of m
IsMultiple(i, m) == \E k \in 0..i : i = k * m

\* the generator has ended: by return, by an exception, or by close()
Ended == gen \in {"finished", "raised", "closed"}

\* C7: a source that was opened and consumed to its end has forwarded exactly
\* the frames whose decode index is a multiple of round(R / F), in increasing
\* order, R being the native rate (30 when unknown) and F being fps_out
C7_ForwardsMultiplesOfInterval ==
    (gen \in {"finished", "raised"} /\ cap = "released") =>
        /\ SetOf(yielded) =
              {i \in 0..(n_frames - 1) : IsMultiple(i, Round(OrigFps(native_fps), fps_out))}
        /\ \A k \in 1..(Len(yielded) - 1) : yielded[k] < yielded[k + 1]

\* C8: consuming iter_frames on a readable source with fps_out > 0 never raises
C8_NoErrorOnReadableSource ==
    (source = "video" /\ fps_out > 0) => gen_err = "none"

\* C9: for a source that cannot be read (and a valid fps_out), once the call
\* to iter_frames is over the RuntimeError has been raised, and no frame was
\* asked for
C9_UnreadableSourceFailsAtCall ==
    (source # "video" /\ fps_out > 0 /\ gen # "none") =>
        /\ gen_err \in {"RuntimeError: Video file not found",
                        "RuntimeError: Failed to open video source"}
        /\ next_calls = 0

\* C10: however the iteration ended, a decoder that was created was released
C10_DecoderReleasedOnEveryExit ==
    Ended => cap \in {"none", "released"}

-----------------------------------------------------------------------------
(* Properties of ModelLoader, checked under SpecLoader *)

\* C12: however many threads call load() while no model is loaded, the
\* weights are loaded at most once, one model object is created at most, and
\* every caller that is handed a model is handed the same one
C12_LoadsAtMostOnce ==
    /\ n_loads <= 1
    /\ n_models <= 1
    /\ \A t, u \in Threads :
          (t_ret[t].kind = "model" /\ t_ret[u].kind = "model") => t_ret[t].val = t_ret[u].val

\* C13: ModelLoader() creates one object at most and every call returns it;
\* its fields are set to None once at most, and never after a model was loaded
C13_Singleton ==
    /\ n_created <= 1
    /\ n_init <= 1
    /\ n_reset = 0
    /\ instance # None => instance = 1
    /\ \A t \in Threads : t_inst[t] # None => t_inst[t] = instance

\* C13 witness: a thread that finished a load() called ModelLoader() again
\* while the model is loaded, and both threads hold the same object
C13_Witness ==
    \E t, u \in Threads :
        /\ t # u
        /\ calls[t] >= 1
        /\ pc[t] = "load_check"
        /\ model > None
        /\ t_inst[t] = instance
        /\ t_inst[u] = instance
        /\ calls[u] >= 1

\* C14: a load() that finds a model present returns that model and leaves
\* model, processor and device as they are, whatever device it asked for
C14_LoadIdempotent ==
    [][\A t \in Threads :
          (pc[t] = "load_check" /\ pc'[t] # "load_check" /\ model > None) =>
              /\ model' = model
              /\ processor' = processor
              /\ device' = device
              /\ t_ret'[t] = [kind |-> "model", val |-> model]]_vars

\* C14 witness: a load() asking for another device than the one in use found
\* the model present and returned it
C14_Witness ==
    \E t \in Threads :
        /\ pc[t] = "idle"
        /\ t_fast[t]
        /\ t_ret[t] = [kind |-> "model", val |-> model]
        /\ device > None
        /\ t_dev[t] # device
        /\ processor > None

-----------------------------------------------------------------------------
(* Properties of predict_frame and predict_batch, checked under SpecPredict *)

\* the call made was predict_batch on a list of at least one frame
BatchCalled == pr_fn = "predict_batch" /\ pr_frames # <<>>

\* every frame of the call converts, the processor and the model succeed
CallSucceeds ==
    /\ \A i \in 1..Len(pr_frames) : pr_frames[i] \in GoodFrames
    /\ pr_env = "ok"

\* id2label is None or names every index the model scores
MappingComplete ==
    id2label.kind = "None" \/ DOMAIN id2label.map = 0..(n_out - 1)

\* the results predict_frame can return for frame f with the call's top_k
SingleResults(f) ==
    {o.val : o \in {o \in Predict_frame(f, pr_top_k, "ok", n_out, id2label) :
                       o.kind = "return"}}

\* C15: predict_batch on N >= 1 frames that the model can evaluate returns a
\* list of N results, and result i is a result of frame i: nothing is
\* reordered, dropped or duplicated
C15_OneResultPerFrameInOrder ==
    BatchCalled =>
        /\ (CallSucceeds /\ MappingComplete /\ pr_top_k >= 1) => pr_out.kind = "return"
        /\ pr_out.kind = "return" =>
              /\ Len(pr_out.val) = Len(pr_frames)
              /\ \A i \in 1..Len(pr_frames) : pr_out.val[i] \in SingleResults(pr_frames[i])

\* C15 witness: a batch of two frames the model scores differently returned
\* two different results
C15_Witness ==
    /\ pr_fn = "predict_batch"
    /\ pr_frames = <<"a", "b">>
    /\ n_out >= 2
    /\ pr_top_k = 1
    /\ pr_out.kind = "return"
    /\ Len(pr_out.val) = 2
    /\ pr_out.val[1] # pr_out.val[2]

\* C16: predict_batch on an empty list returns an empty list, and neither the
\* processor nor the model is called
C16_EmptyBatchReturnsEmpty ==
    (pr_fn = "predict_batch" /\ pr_frames = <<>>) =>
        /\ pr_out.kind = "return"
        /\ pr_out.val = <<>>
        /\ processor_calls = 0
        /\ model_calls = 0

\* C16 witness: an empty list was passed while the model would have raised,
\* and an empty list came back
C16_Witness ==
    /\ pr_fn = "predict_batch"
    /\ pr_frames = <<>>
    /\ pr_env = "model_raises"
    /\ pr_out.kind = "return"
    /\ pr_out.val = <<>>
    /\ model_calls = 0

\* C17: a call given a frame that is None or has size 0 ends in an error
\* of another type than the RuntimeError that reports a failed prediction,
\* and the model is not called
C17_DegenerateFrameIsInvalidFrame ==
    (pr_fn # "none" /\ \E i \in 1..Len(pr_frames) : pr_frames[i] \in Degenerate) =>
        /\ pr_out.kind \notin {"return", "RuntimeError"}
        /\ model_calls = 0

\* the exception the processor or the model raises in the call, "" if none
RaisedInForward ==
    CASE pr_env = "processor_raises" -> "processor failed"
      [] pr_env = "model_raises" -> "model failed"
      [] pr_env = "no_logits" -> "AttributeError: logits"
      [] OTHER -> ""

\* C18: a call in which a frame cannot be converted, or the processor or the
\* model raises, ends in a RuntimeError that names the exception raised; it
\* never returns a value
C18_FailuresAreWrappedWithCause ==
    (/\ pr_fn # "none"
     /\ pr_frames # <<>>
     /\ \/ \E i \in 1..Len(pr_frames) : pr_frames[i] \notin GoodFrames
        \/ pr_env # "ok") =>
        /\ pr_out.kind = "RuntimeError"
        /\ pr_out.prefix = IF pr_fn = "predict_frame" THEN "Prediction failed"
                           ELSE "Batch prediction failed"
        /\ pr_out.cause # ""
        /\ (\A i \in 1..Len(pr_frames) : pr_frames[i] \in GoodFrames) =>
              pr_out.cause = RaisedInForward

\* C18 witness: the model raised on a batch of two good frames and the call
\* ended in a RuntimeError naming that failure
C18_Witness ==
    /\ pr_fn = "predict_batch"
    /\ pr_frames = <<"a", "b">>
    /\ pr_env = "model_raises"
    /\ model_calls = 1
    /\ pr_out.kind = "RuntimeError"
    /\ pr_out.cause = "model failed"

\* the dicts a returning call hands back, each with the frame it is for
ReturnedDicts ==
    IF pr_out.kind # "return" THEN {}
    ELSE IF pr_fn = "predict_frame" THEN {<<pr_frames[1], pr_out.val>>}
    ELSE {<<pr_frames[i], pr_out.val[i]>> : i \in 1..Len(pr_frames)}

\* the name decoding gives to index i
NameOf(i) == Mapping(id2label, n_out)[i]

\* no two indices the model scores have the same name
NamesDistinct ==
    /\ MappingComplete
    /\ \A i, j \in 0..(n_out - 1) : i # j => NameOf(i) # NameOf(j)

Above(f, i) ==
    Cardinality({j \in 0..(n_out - 1) :
                    ~RGeq(Softmax(f, n_out)[i], Softmax(f, n_out)[j])})

\* the number of scores of frame f that are at least the score of index i
AtLeast(f, i) ==
    Cardinality({j \in 0..(n_out - 1) :
                    RGeq(Softmax(f, n_out)[j], Softmax(f, n_out)[i])})

\* C20 as stated, last clause: a call with top_k larger than the number of
\* labels does not return a result
C20_LargeTopKRejected ==
    (pr_fn # "none" /\ pr_frames # <<>> /\ pr_top_k > n_out) => pr_out.kind # "return"

\* C20 amended: for top_k >= 1 every returned result holds the top_k
\* highest-probability label/score pairs and no others: each entry is the
\* score of an index that fewer than top_k scores exceed, every index that
\* ranks within the first top_k is present, there are at most top_k entries
\* and exactly min(top_k, number of labels) when names are distinct; a top_k
\* larger than the number of labels is clamped to it, not rejected
C20_TopKTruncation ==
    (pr_fn # "none" /\ pr_frames # <<>> /\ pr_top_k >= 1) =>
        /\ (CallSucceeds /\ MappingComplete) => pr_out.kind = "return"
        /\ \A fd \in ReturnedDicts :
              /\ Cardinality(DOMAIN fd[2]) <= pr_top_k
              /\ NamesDistinct => Cardinality(DOMAIN fd[2]) = Min(pr_top_k, n_out)
              /\ \A nm \in DOMAIN fd[2] :
                    \E i \in 0..(n_out - 1) :
                        /\ NameOf(i) = nm
                        /\ fd[2][nm] = Softmax(fd[1], n_out)[i]
                        /\ Above(fd[1], i) < pr_top_k
              /\ \A i \in 0..(n_out - 1) :
                    AtLeast(fd[1], i) <= pr_top_k => NameOf(i) \in DOMAIN fd[2]

\* C20 witness: top_k = 2 on a model with four distinct labels, and the
\* result has the two highest scores only
C20_Witness ==
    /\ pr_fn = "predict_frame"
    /\ pr_frames = <<"a">>
    /\ pr_top_k = 2
    /\ n_out = 4
    /\ NamesDistinct
    /\ pr_out.kind = "return"
    /\ DOMAIN pr_out.val = {NameOf(2), NameOf(3)}

\* C21: when id2label is None or lacks an index the model scores, a call
\* that is otherwise able to succeed returns results keyed by the stringified
\* indices
C21_UndeterminedMappingDecodesSynthetic ==
    (/\ pr_fn # "none"
     /\ pr_frames # <<>>
     /\ CallSucceeds
     /\ pr_top_k >= 1
     /\ \/ id2label.kind = "None"
        \/ ~MappingComplete) =>
        /\ pr_out.kind = "return"
        /\ \A fd \in ReturnedDicts :
              DOMAIN fd[2] \subseteq {Synthetic(n_out)[i] : i \in 0..(n_out - 1)}

-----------------------------------------------------------------------------
(* Properties of main, checked under SpecPipeline *)

\* C22: when the source opens and the classifier works, a frame that fails
\* to decode costs that frame only: once main has ended, every frame that
\* decodes and falls on the sampling interval has had its result printed
C22_BadFrameDoesNotAbortStream ==
    (/\ pl_pc = "done"
     /\ pl_source = "video"
     /\ FrameInterval(pl_native, MainFpsOut) > 0
     /\ pl_env = "ok"
     /\ MappingComplete) =>
        \A c \in 0..(Len(pl_stream) - 1) :
            (pl_stream[c + 1] # "undecodable"
             /\ c % FrameInterval(pl_native, MainFpsOut) = 0) =>
                \E i \in 1..Len(pl_reported) : pl_reported[i] = c

-----------------------------------------------------------------------------
(* Properties of the AlertDecider, checked under SpecDecider *)

\* C23: in a run of same-label observations at or above THRESHOLD that starts
\* from Idle, no Alert is emitted for observations 1..CONSECUTIVE-1 and one
\* Alert is emitted on observation number CONSECUTIVE
C23_FiresOnConsecutiveth ==
    /\ Len(ad_run) < ad_consecutive => ad_run_alerts = 0
    /\ Len(ad_run) = ad_consecutive => (ad_run_alerts = 1 /\ ad_emitted = 1)
    /\ (ad_emitted = 1 /\ ad_run # <<>>) => Len(ad_run) = ad_consecutive

\* C23 witness: with CONSECUTIVE = 3 the third observation of the first run,
\* one of them exactly at THRESHOLD, emitted the first Alert
C23_Witness ==
    /\ ad_consecutive = DefaultConsecutive
    /\ ad_n = DefaultConsecutive
    /\ Len(ad_run) = DefaultConsecutive
    /\ \E i \in 1..Len(ad_run) : ad_run[i].conf = THRESHOLD
    /\ ad_emitted = 1
    /\ ad_alerts = 1

\* C24: between two streak breaks at most one Alert is emitted, however many
\* qualifying observations of the same label arrive in Fired
C24_AtMostOneAlertPerStreak ==
    /\ ad_run_alerts <= 1
    /\ ad_alerts <= ad_breaks + 1
    /\ (ad_prev = "Fired" /\ ad_run # <<>>) => ad_emitted = 0

\* C24 witness: two further qualifying observations arrived in Fired and the
\* streak still has its one Alert
C24_Witness ==
    /\ ad_state = "Fired"
    /\ ad_prev = "Fired"
    /\ Len(ad_run) = ad_consecutive + 2
    /\ ad_run_alerts = 1
    /\ ad_emitted = 0

\* C25: an observation below THRESHOLD or of another label than the tracked
\* one, arriving in Accumulating or Fired, leaves the decider Idle with a
\* streak of zero; the run of CONSECUTIVE qualifying same-label observations
\* after it fires one new Alert
C25_ResetAndReArm ==
    /\ (ad_n > 0 /\ ad_run = <<>>) =>
          (ad_state = "Idle" /\ ad_streak = 0 /\ ad_tracked = NoTracked /\ ad_emitted = 0)
    /\ ad_run # <<>> => (ad_streak = Len(ad_run) /\ ad_tracked = ad_run[1].label)
    /\ (ad_breaks >= 1 /\ Len(ad_run) >= ad_consecutive) =>
          (ad_state = "Fired" /\ ad_run_alerts = 1)

\* C25 witness: with CONSECUTIVE = 3 a streak fired, was broken by one
\* observation, and the run of three after it fired the second Alert
C25_Witness ==
    /\ ad_consecutive = DefaultConsecutive
    /\ ad_breaks = 1
    /\ ad_alerts = 2
    /\ ad_emitted = 1
    /\ Len(ad_run) = DefaultConsecutive
    /\ ad_n = 2 * DefaultConsecutive + 1

-----------------------------------------------------------------------------
(* Properties of the EMA's ownership of its state, checked under SpecAlias *)

\* C26: the stored vector changes only in update: whatever the caller does to
\* the array it passed in or to the list it got back, self.ema is what it was
\* when the last update returned
C26_StateMutatedOnlyByUpdate ==
    al_calls > 0 => StoredEMA = al_at_return

-----------------------------------------------------------------------------
(* Properties of the label tables, checked under SpecLabels *)

\* C27: index -> name -> index gives back the index for every index of
\* LABELS, and name -> index -> name gives back the name for every name, so
\* the two tables are inverse bijections between the 14 indices and names
C27_LabelRoundTrip ==
    /\ \A k \in 1..Len(lb_log) :
          IF lb_log[k].kind = "index"
          THEN lb_log[k].back = <<lb_log[k].index>>
          ELSE lb_log[k].back = <<lb_log[k].name>>
    /\ DOMAIN ID2LABEL = LabelIds
    /\ Cardinality(DOMAIN LABEL2ID) = Len(LABELS)

\* C27 witness: the last index was taken to its name and back, and the last
\* name to its index and back
C27_Witness ==
    /\ Len(lb_log) = 2
    /\ lb_log[1] = [kind |-> "index", index |-> 13, name |-> "Vandalism", back |-> <<13>>]
    /\ lb_log[2] = [kind |-> "name", index |-> 13, name |-> "Vandalism",
                    back |-> <<"Vandalism">>]

-----------------------------------------------------------------------------
(* Properties of the users table, checked under SpecDb *)

\* the last call was create_user with a username that was stored already
DuplicateCreate ==
    /\ db_call.fn = "create_user"
    /\ RowsNamed(db_before, db_call.username) # {}

\* C28 as stated: every create_user with a stored username raises the
\* ValueError 'already exists' and leaves the table as it was
C28_DuplicateRaisesAlreadyExists ==
    DuplicateCreate =>
        /\ db_out = [kind |-> "ValueError", val |-> "already exists"]
        /\ users = db_before

\* C28 amended: create_user with a stored username raises ValueError and
\* leaves the table as it was: 'already exists' when the role is 'admin' or
\* 'user', 'Invalid role' otherwise (the role is checked first); after any
\* sequence of create_user, delete_user and update_user_password calls no two
\* rows share a username or an id
C28_DuplicateRejectedStoreUnchanged ==
    /\ DuplicateCreate =>
          /\ db_out.kind = "ValueError"
          /\ db_out.val = IF db_call.role \in {"admin", "user"} THEN "already exists"
                          ELSE "Invalid role"
          /\ users = db_before
    /\ \A r1, r2 \in users : (r1.username = r2.username \/ r1.id = r2.id) => r1 = r2

\* C28 witness: after a create, a password update and a rejected create of
\* the same name with another password and role, the row is the updated one
C28_Witness ==
    /\ db_calls = 3
    /\ DuplicateCreate
    /\ db_out = [kind |-> "ValueError", val |-> "already exists"]
    /\ \E r \in users :
          /\ r.username = db_call.username
          /\ r.hashed_password[3] # db_call.password
          /\ r.role # db_call.role
    /\ Cardinality(users) = 1

-----------------------------------------------------------------------------
(* Further properties of ModelLoader, checked under SpecLoader *)

\* C29: a caller that load() has handed a model finds the loader complete:
\* the processor is not None, so get_processor() does not raise, and the
\* device is set; and while a load() that raised is the only load() that has
\* ended, the loader holds no model, so the next load() tries again
C29_ModelImpliesProcessorAndDevice ==
    /\ \A t \in Threads :
          (pc[t] = "idle" /\ t_ret[t].kind = "model" /\ model > None) =>
              (processor > None /\ device > None)
    /\ (\A t \in Threads : pc[t] = "idle" /\ t_ret[t].kind # "model") => model <= None

-----------------------------------------------------------------------------
(* Properties of EMA on floats, checked under SpecFloatEMA *)

RECURSIVE RSum(_)
RSum(v) == IF v = <<>> THEN RZero ELSE RAdd(Head(v), RSum(Tail(v)))

RECURSIVE RPow(_, _)
RPow(x, n) == IF n = 0 THEN ROne ELSE RMul(x, RPow(x, n - 1))

\* the unit roundoff of the format: half the gap between 1 and the next float
UnitRoundoff == Rat(1, Pow2(FloatBits))
\* a blend rounds four times (1 - alpha, two products, one sum), each entry
\* three times; after n blends a bound grows or shrinks by at most a factor
\* (1 + 4u)^n or (1 - 4u)^n
SlackUp(n) == RPow(RAdd(ROne, RMul(Rat(4, 1), UnitRoundoff)), n)
SlackDown(n) == RPow(RSub(ROne, RMul(Rat(4, 1), UnitRoundoff)), n)

====
